---- MODULE Spec2Model ----
(***************************************************************************)
(* A model of morpheuslib2: the lookup-and-cache layer (MorpheusUrl.fetch,  *)
(* MorpheusResponse.retry, retry_all, the flat-file Cache and the sqlite   *)
(* DbCache), the tokenizer (WordStream) and the normalizer (Analysis,      *)
(* AnalysisList); and of the Analyses iterator of morpheuslib.             *)
(*                                                                         *)
(* Python values are modelled as follows.  None is the empty tuple and a   *)
(* present value x is <<x>>.  A dict is the sequence of its items in       *)
(* insertion order.  An exception leaving a call is the name of its class  *)
(* in the "raised" field of the call's outcome ("" when the call returns). *)
(***************************************************************************)
EXTENDS Integers, Sequences, FiniteSets, TLC

VARIABLES
    tick,       \* parity of the number of top-level calls made so far
    last,       \* outcome of the latest top-level call on the flat side
    pers,       \* Cache.pers: the in-memory dict of the flat cache
    status,     \* Cache.status
    last_save,  \* Cache.last_save
    cobj,       \* "open" while the process holds a Cache instance, else "none"
    file,       \* what the path Cache.file holds on disk
    now,        \* the clock: the value the next datetime.now() returns
    cpc,        \* Cache.commit: position ("idle", "opened", "dumped")
    dcnx,       \* DbCache.cnx: "open" or "closed"
    dbDisk,     \* the cache table as committed to the database file
    dbConn,     \* the cache table as the connection sees it
    dblast,     \* outcome of the latest call on the DbCache
    r_pc,       \* retry_all: position ("idle", or "comp" inside a round)
    r_urls,     \* retry_all: argument urls
    r_max,      \* retry_all: argument max_tries
    r_cache,    \* retry_all: argument cache ("none" or "flat")
    r_d,        \* retry_all: local d
    r_l,        \* retry_all: local l (None while unbound)
    r_new,      \* retry_all: the list the current comprehension has built
    r_nreq,     \* number of urlopen calls made by the running retry_all
    ws_pc,      \* WordStream: "none", "new", "open", "failed" or "done"
    ws,         \* WordStream: the attributes of the instance
    ws_text,    \* WordStream.text: the characters not yet read
    wlast,      \* outcome of the latest return or raise of the WordStream
    nwords,     \* number of Words the WordStream has returned
    al,         \* AnalysisList.l; the analyses an iteration has yielded
    alast,      \* outcome of the latest call on the AnalysisList
    an          \* morpheuslib.Analyses: the attributes of the instance

vars == <<tick, last, pers, status, last_save, cobj, file, now, cpc,
          dcnx, dbDisk, dbConn, dblast,
          r_pc, r_urls, r_max, r_cache, r_d, r_l, r_new, r_nreq,
          ws_pc, ws, ws_text, wlast, nwords, al, alast, an>>

tokVars == <<ws_pc, ws, ws_text, wlast, nwords>>
anVars == <<al, alast, an>>
pipelineVars == <<tokVars, anVars>>

----------------------------------------------------------------------------
(* Bounds of the model. *)

\* longest url list handed to retry_all
MaxUrls == 2
\* largest max_tries handed to retry_all
MaxTries == 2
\* number of readings of the clock in one behaviour
MaxClock == 3
\* longest text handed to a WordStream, in characters
MaxText == 3
\* largest number of <analysis> elements in a response document
MaxAnalyses == 2

----------------------------------------------------------------------------
(* Python values. *)

None == <<>>
Some(x) == <<x>>

\* dict as a sequence of items [k, v] in insertion order
EmptyDict == <<>>
DictHas(d, k) == \E i \in 1..Len(d) : d[i].k = k
DictGet(d, k) ==
    IF DictHas(d, k) THEN Some(d[CHOOSE i \in 1..Len(d) : d[i].k = k].v) ELSE None
RECURSIVE DictReplace(_, _, _)
DictReplace(d, k, v) ==
    IF d = <<>> THEN <<>>
    ELSE <<IF Head(d).k = k THEN [k |-> k, v |-> v] ELSE Head(d)>>
         \o DictReplace(Tail(d), k, v)
DictSet(d, k, v) ==
    IF DictHas(d, k) THEN DictReplace(d, k, v) ELSE Append(d, [k |-> k, v |-> v])
DictKeySet(d) == {d[i].k : i \in 1..Len(d)}

\* the (url form, language) keys of the words looked up
Keys == {<<"arma", "la">>, <<"cano", "la">>, <<"logos", "greek">>}

\* the urls the caller of the lookup layer asks for (MorpheusUrl.key)
Urls == {<<"arma", "la">>, <<"logos", "greek">>}

\* sequences over S of length at most n
RECURSIVE SeqsUpTo(_, _)
SeqsUpTo(S, n) ==
    IF n = 0 THEN {<<>>}
    ELSE LET shorter == SeqsUpTo(S, n - 1)
         IN  shorter \cup {Append(s, x) : s \in {t \in shorter : Len(t) = n - 1}, x \in S}

----------------------------------------------------------------------------
(* The remote service as urlopen sees it. *)

HTTPErrors == {[code |-> 403, msg |-> "Forbidden"],
               [code |-> 503, msg |-> "Service Unavailable"]}

\* what one urlopen(url) + read() can do
Outcomes ==
    {[kind |-> "ok", code |-> 0, msg |-> ""]}
    \cup {[kind |-> "HTTPError", code |-> e.code, msg |-> e.msg] : e \in HTTPErrors}
    \cup {[kind |-> "URLError", code |-> 0, msg |-> "no route to host"]}

\* the <analyses> document the service returns for a key
Document(key) == <<"analyses", key[1]>>

ResponseErrorInfo(exn) == [msg |-> exn.msg, code |-> exn.code]

MorpheusResponse(url, text, exn) == [url |-> url, text |-> text, exn |-> exn]

is_ok(resp) == resp.exn = None

\* MorpheusResponse.key()
key(resp) == resp.url

----------------------------------------------------------------------------
(* Cache: the in-memory part.  A cache state cs is [pers, status]. *)

lookup_key(cs, k) == DictGet(cs.pers, k)

\* Cache.cache(resp)
cache(cs, resp) ==
    [pers |-> DictSet(cs.pers, key(resp), resp), status |-> "cache_changed"]

----------------------------------------------------------------------------
(* MorpheusUrl.fetch.  The outcome of a call is                            *)
(*   raised: "" or the exception class leaving the call                    *)
(*   resp:   the MorpheusResponse returned (None when raised)              *)
(*   nreq:   the number of urlopen calls made                              *)
(*   cs:     the cache's state after the call                              *)

\* fetch(cache = None) with the except clauses in the other order: HTTPError
\* is a URLError, so the rejection is re-raised too
fetch_remote_urlerror_first(url, o) ==
    IF o.kind = "ok"
    THEN [raised |-> "", nreq |-> 1,
          resp |-> Some(MorpheusResponse(url, Some(Document(url)), None))]
    ELSE [raised |-> "URLError", nreq |-> 1, resp |-> None]

\* fetch(cache = None): one request, classified
fetch_remote(url, o) ==
    IF o.kind = "ok"
    THEN [raised |-> "", nreq |-> 1,
          resp |-> Some(MorpheusResponse(url, Some(Document(url)), None))]
    ELSE IF o.kind = "HTTPError"
    THEN [raised |-> "", nreq |-> 1,
          resp |-> Some(MorpheusResponse(url, None, Some(ResponseErrorInfo(o))))]
    ELSE [raised |-> "URLError", nreq |-> 1, resp |-> None]

\* the test that sends fetch(cache) to the service
must_fetch_always(found) == TRUE

must_fetch(found) == found = None \/ ~is_ok(found[1])

\* fetch(cache) that forgets to store what it fetched
store_dropped(cs, resp) == cs

\* what fetch(cache) does with the response it fetched
store_fetched(cs, resp) == cache(cs, resp)

\* fetch(cache) with a flat Cache in state cs
fetch_cached(url, cs, o) ==
    LET found == lookup_key(cs, url) IN
    IF must_fetch(found)
    THEN LET r == fetch_remote(url, o) IN
         IF r.raised # ""
         THEN [raised |-> r.raised, nreq |-> r.nreq, resp |-> None, cs |-> cs]
         ELSE [raised |-> "", nreq |-> r.nreq, resp |-> r.resp,
               cs |-> store_fetched(cs, r.resp[1])]
    ELSE [raised |-> "", nreq |-> 0, resp |-> found, cs |-> cs]

\* fetch(cache) for cache in {"none", "flat"}
fetch(url, c, cs, o) ==
    IF c = "none"
    THEN LET r == fetch_remote(url, o) IN
         [raised |-> r.raised, nreq |-> r.nreq, resp |-> r.resp, cs |-> cs]
    ELSE fetch_cached(url, cs, o)

\* retry that fetches again whatever the response holds
retry_always(resp, c, cs, o) == fetch(resp.url, c, cs, o)

\* MorpheusResponse.retry(cache)
retry(resp, c, cs, o) ==
    IF is_ok(resp)
    THEN [raised |-> "", nreq |-> 0, resp |-> Some(resp), cs |-> cs]
    ELSE fetch(resp.url, c, cs, o)

----------------------------------------------------------------------------
(* Cache: the snapshot file.  The path holds no file ("missing"), bytes    *)
(* pickle cannot load ("corrupt": never a pickle; "partial": a file opened *)
(* for writing whose pickle is not, or not wholly, on disk), or the pickle *)
(* of a pair (timestamp, dict) ("valid").                                  *)

NoFile == [kind |-> "missing", ts |-> 0, map |-> EmptyDict]
Garbage == [kind |-> "corrupt", ts |-> 0, map |-> EmptyDict]
Truncated == [kind |-> "partial", ts |-> 0, map |-> EmptyDict]
\* pickle.dump((t, d), f), complete
Pickled(t, d) == [kind |-> "valid", ts |-> t, map |-> d]

DictKeys(d) == [i \in 1..Len(d) |-> d[i].k]
InSeq(x, q) == \E i \in 1..Len(q) : q[i] = x
DictPop(d, k) == SelectSeq(d, LAMBDA e : e.k # k)

\* Cache.__init__ with only IOError handled: a file pickle cannot load
\* makes the constructor raise
open_cache_ioerror_only(f, t) ==
    IF f.kind = "missing"
    THEN [raised |-> "", pers |-> EmptyDict, status |-> "new cache",
          last_save |-> None, file |-> Pickled(t, EmptyDict), clock |-> TRUE]
    ELSE IF f.kind = "valid"
    THEN [raised |-> "", pers |-> f.map, status |-> "reopened cache",
          last_save |-> Some(f.ts), file |-> f, clock |-> FALSE]
    ELSE [raised |-> "UnpicklingError", pers |-> EmptyDict, status |-> "",
          last_save |-> None, file |-> f, clock |-> FALSE]

\* Cache.__init__(file) on a path holding f, the clock at t
open_cache(f, t) ==
    IF f.kind = "missing"
    THEN \* open(file, 'rb') raises IOError
         [raised |-> "", pers |-> EmptyDict, status |-> "new cache",
          last_save |-> None, file |-> Pickled(t, EmptyDict), clock |-> TRUE]
    ELSE IF f.kind = "valid"
    THEN [raised |-> "", pers |-> f.map, status |-> "reopened cache",
          last_save |-> Some(f.ts), file |-> f, clock |-> FALSE]
    ELSE \* pickle.load raises something that is no IOError
         [raised |-> "", pers |-> EmptyDict, status |-> "corrupted cache",
          last_save |-> None, file |-> f, clock |-> FALSE]

\* Cache.uncache_word(word)
uncache_word(cs, k) == [pers |-> DictPop(cs.pers, k), status |-> "cache_changed"]

\* Cache.clear()
clear(cs) == [pers |-> EmptyDict, status |-> "cache_cleared"]

\* commit_report whose second list is every key in memory
commit_report_all_replaced(f, d) ==
    IF f.kind = "missing"
    THEN [op |-> "commit_report", raised |-> "IOError"]
    ELSE IF f.kind # "valid"
    THEN [op |-> "commit_report", raised |-> "UnpicklingError"]
    ELSE LET fkeys == DictKeys(f.map)
             mkeys == DictKeys(d)
         IN  [op |-> "commit_report", raised |-> "",
              will_be_deleted |-> SelectSeq(fkeys, LAMBDA k : ~InSeq(k, mkeys)),
              will_be_replaced |-> mkeys,
              will_be_added |-> SelectSeq(mkeys, LAMBDA k : ~InSeq(k, fkeys))]

\* Cache.commit_report() with f on disk and d in memory
commit_report(f, d) ==
    IF f.kind = "missing"
    THEN [op |-> "commit_report", raised |-> "IOError"]
    ELSE IF f.kind # "valid"
    THEN [op |-> "commit_report", raised |-> "UnpicklingError"]
    ELSE LET fkeys == DictKeys(f.map)
             mkeys == DictKeys(d)
         IN  [op |-> "commit_report", raised |-> "",
              will_be_deleted |-> SelectSeq(fkeys, LAMBDA k : ~InSeq(k, mkeys)),
              will_be_replaced |-> SelectSeq(mkeys, LAMBDA k : InSeq(k, fkeys)),
              will_be_added |-> SelectSeq(mkeys, LAMBDA k : ~InSeq(k, fkeys))]

----------------------------------------------------------------------------
(* The lookup layer as a state machine: top-level calls of fetch and of    *)
(* retry_all by one single-threaded caller.  retry_all takes one step per  *)
(* element of its list comprehensions and one at the end of each round.    *)

NoCall == [op |-> "none"]
Running == [op |-> "running"]

Caches == {"none", "flat"}

CacheState == [pers |-> pers, status |-> status]

InitCalls == tick = FALSE /\ last = NoCall

InitRetry ==
    /\ r_pc = "idle" /\ r_urls = <<>> /\ r_max = 0 /\ r_cache = "none"
    /\ r_d = 0 /\ r_l = None /\ r_new = <<>> /\ r_nreq = 0

\* the locals of retry_all are gone once it has returned or raised
RetryGone ==
    /\ r_pc' = "idle" /\ r_urls' = <<>> /\ r_max' = 0 /\ r_cache' = "none"
    /\ r_d' = 0 /\ r_l' = None /\ r_new' = <<>> /\ r_nreq' = 0

retryVars == <<r_pc, r_urls, r_max, r_cache, r_d, r_l, r_new, r_nreq>>

\* a Cache just constructed on a path that held no file
NewCache ==
    /\ cobj = "open" /\ cpc = "idle"
    /\ pers = open_cache(NoFile, 1).pers
    /\ status = open_cache(NoFile, 1).status
    /\ last_save = open_cache(NoFile, 1).last_save
    /\ file = open_cache(NoFile, 1).file
    /\ now = 2

fileVars == <<cobj, file, now, cpc>>

dbVars == <<dcnx, dbDisk, dbConn, dblast>>

\* a DbCache just constructed on a database that held no table
NewDbCache ==
    /\ dcnx = "open" /\ dbDisk = <<>> /\ dbConn = <<>>
    /\ dblast = [op |-> "none"]

\* no WordStream and no AnalysisList have been constructed
\* no morpheuslib.Analyses has been made
NoAnalyses == [els |-> <<>>, i |-> 0, retct |-> 0, uq |-> <<>>, non_ret |-> <<>>]

NoPipeline ==
    /\ ws_pc = "none" /\ ws = [lang |-> "none"] /\ ws_text = <<>>
    /\ wlast = [op |-> "none"] /\ nwords = 0
    /\ al = <<>> /\ alast = [op |-> "none"] /\ an = NoAnalyses

\* url.fetch(cache) called by the user
Fetch(url, c) ==
    /\ r_pc = "idle"
    /\ \E o \in Outcomes :
         LET r == fetch(url, c, CacheState, o) IN
         /\ last' = [op |-> "fetch", url |-> url, cache |-> c, raised |-> r.raised,
                     resp |-> r.resp, nreq |-> r.nreq,
                     sent |-> IF r.nreq = 0 THEN None ELSE Some(o)]
         /\ pers' = r.cs.pers
         /\ status' = r.cs.status
    /\ tick' = ~tick
    /\ UNCHANGED <<last_save, fileVars, retryVars, dbVars, pipelineVars>>

\* retry_all's return statements
RetryAllResult(raised, d, l, ok, nreq) ==
    [op |-> "retry_all", urls |-> r_urls, max |-> r_max, cache |-> r_cache,
     raised |-> raised, d |-> d, l |-> l, ok |-> ok, nreq |-> nreq]

\* retry_all(urls, max_tries, cache) is called: d = 0 and the first test of
\* the while loop
RetryAllCall(urls, max, c) ==
    /\ r_pc = "idle"
    /\ tick' = ~tick
    /\ IF 0 < max
       THEN /\ r_pc' = "comp" /\ r_urls' = urls /\ r_max' = max /\ r_cache' = c
            /\ r_d' = 0 /\ r_l' = None /\ r_new' = <<>> /\ r_nreq' = 0
            /\ last' = Running
       ELSE \* return (d, l, False) reads l, which no round has bound
            /\ last' = [op |-> "retry_all", urls |-> urls, max |-> max, cache |-> c,
                        raised |-> "UnboundLocalError", d |-> 0, l |-> None,
                        ok |-> FALSE, nreq |-> 0]
            /\ RetryGone
    /\ UNCHANGED <<pers, status, last_save, fileVars, dbVars, pipelineVars>>

\* one element of [url.fetch(cache) for url in urls] (d = 0) or of
\* [resp.retry(cache) for resp in l]
RetryAllElem ==
    /\ r_pc = "comp"
    /\ Len(r_new) < Len(r_urls)
    /\ \E o \in Outcomes :
         LET i == Len(r_new) + 1
             r == IF r_d = 0
                  THEN fetch(r_urls[i], r_cache, CacheState, o)
                  ELSE retry(r_l[1][i], r_cache, CacheState, o)
         IN  /\ pers' = r.cs.pers
             /\ status' = r.cs.status
             /\ IF r.raised # ""
                THEN /\ last' = RetryAllResult(r.raised, r_d, None, FALSE,
                                               r_nreq + r.nreq)
                     /\ RetryGone
                ELSE /\ r_new' = Append(r_new, r.resp[1])
                     /\ r_nreq' = r_nreq + r.nreq
                     /\ UNCHANGED <<last, r_pc, r_urls, r_max, r_cache, r_d, r_l>>
    /\ UNCHANGED <<tick, last_save, fileVars, dbVars, pipelineVars>>

all_ok(l) == \A i \in 1..Len(l) : is_ok(l[i])

\* the round's list is bound to l, d = d + 1, the all() test and the next
\* test of the while loop
RetryAllRoundEnd ==
    /\ r_pc = "comp"
    /\ Len(r_new) = Len(r_urls)
    /\ IF all_ok(r_new)
       THEN /\ last' = RetryAllResult("", r_d + 1, Some(r_new), TRUE, r_nreq)
            /\ RetryGone
       ELSE IF r_d + 1 < r_max
       THEN /\ r_l' = Some(r_new) /\ r_d' = r_d + 1 /\ r_new' = <<>>
            /\ UNCHANGED <<last, r_pc, r_urls, r_max, r_cache, r_nreq>>
       ELSE /\ last' = RetryAllResult("", r_d + 1, Some(r_new), FALSE, r_nreq)
            /\ RetryGone
    /\ UNCHANGED <<tick, pers, status, last_save, fileVars, dbVars, pipelineVars>>

Init == InitCalls /\ NewCache /\ InitRetry /\ NewDbCache /\ NoPipeline

Next ==
    \/ \E url \in Urls, c \in Caches : Fetch(url, c)
    \/ \E urls \in SeqsUpTo(Urls, MaxUrls), max \in 0..MaxTries, c \in Caches :
         RetryAllCall(urls, max, c)
    \/ RetryAllElem
    \/ RetryAllRoundEnd

Spec == Init /\ [][Next]_vars

----------------------------------------------------------------------------
(* Properties of the lookup layer, checked under Spec. *)

\* the step is the second of two fetch(cache) calls in sequence for the same
\* word on the flat cache, and the first of them went to the service
TwoFetches ==
    /\ tick' # tick
    /\ last.op = "fetch" /\ last'.op = "fetch"
    /\ last.cache = "flat" /\ last'.cache = "flat"
    /\ last'.url = last.url
    /\ last.nreq = 1

\* C1 as stated: fetch(cache) called twice in sequence for the same word
\* issues exactly one remote request, the second call being served from
\* the cache.
C1_TwiceOneRequest == [][TwoFetches => last.nreq + last'.nreq = 1]_vars

\* C1 amended: of two fetch(cache) calls in sequence for the same word, the
\* second is served from the cache (one request in all, and the same
\* response returned) exactly when the first returned an ok response; after
\* a not-ok response or a URLError the second call sends a request again.
C1_TwiceOneRequestIfOk ==
    [][TwoFetches =>
         IF last.raised = "" /\ is_ok(last.resp[1])
         THEN last'.nreq = 0 /\ last'.raised = "" /\ last'.resp = last.resp
         ELSE last'.nreq = 1]_vars

\* a fetch(cache) served from the cache: no request, an ok response
C1_Witness ==
    /\ last.op = "fetch" /\ last.cache = "flat"
    /\ last.nreq = 0 /\ last.raised = ""
    /\ is_ok(last.resp[1])
    /\ lookup_key(CacheState, last.url) = last.resp

RetryElemAt(i) ==
    /\ r_pc = "comp" /\ r_d >= 1
    /\ i = Len(r_new) + 1 /\ i <= Len(r_urls)

\* C3: in every round of retry_all after the first, an entry whose result is
\* ok is kept as it is and no request is sent for it.
C3_NoRefetchOfOk ==
    [][\A i \in 1..MaxUrls + 1 :
         (RetryElemAt(i) /\ is_ok(r_l[1][i])) =>
            /\ r_pc' = "comp"
            /\ r_nreq' = r_nreq
            /\ r_new' = Append(r_new, r_l[1][i])]_vars

\* a second or later round that has passed over an ok entry while another
\* entry is still not ok
C3_Witness ==
    /\ r_pc = "comp" /\ r_d >= 1 /\ Len(r_new) >= 1
    /\ is_ok(r_l[1][1]) /\ r_new[1] = r_l[1][1]
    /\ \E j \in 1..Len(r_l[1]) : ~is_ok(r_l[1][j])
    /\ r_nreq >= Len(r_urls)

\* C4 as stated: unless a URLError aborts it, retry_all(urls, max_tries)
\* returns (d, results, ok) with d <= max_tries, one result per url in the
\* order of urls, and ok true iff every result is ok.
C4_ReturnsTriple ==
    (last.op = "retry_all" /\ last.raised # "URLError") =>
        /\ last.raised = ""
        /\ last.d <= last.max
        /\ Len(last.l[1]) = Len(last.urls)
        /\ \A i \in 1..Len(last.urls) : last.l[1][i].url = last.urls[i]
        /\ last.ok = all_ok(last.l[1])

\* what holds of the code: the same for max_tries >= 1
C4_ReturnsTripleFromOne ==
    (last.op = "retry_all" /\ last.raised # "URLError" /\ last.max >= 1) =>
        /\ last.raised = ""
        /\ last.d <= last.max
        /\ Len(last.l[1]) = Len(last.urls)
        /\ \A i \in 1..Len(last.urls) : last.l[1][i].url = last.urls[i]
        /\ last.ok = all_ok(last.l[1])

----------------------------------------------------------------------------
(* The flat Cache as a state machine: one process at a time constructs a   *)
(* Cache on the path, works on it, and ends (or is killed).  commit takes  *)
(* a step per statement that touches the file, so that the states a        *)
(* failure or a kill leaves behind are states of the model.                *)

\* the responses handed to Cache.cache
StoredResponses ==
    {MorpheusResponse(k, Some(Document(k)), None) : k \in Keys}
    \cup {MorpheusResponse(<<"arma", "la">>, None,
                           Some([msg |-> "Forbidden", code |-> 403]))}

InitCache ==
    /\ InitCalls /\ InitRetry /\ NewDbCache /\ NoPipeline
    /\ cobj = "none" /\ cpc = "idle"
    /\ pers = EmptyDict /\ status = "" /\ last_save = None
    /\ file \in {NoFile, Garbage}
    /\ now = 1

\* Cache(file)
Open ==
    /\ cobj = "none"
    /\ file.kind = "missing" => now <= MaxClock
    /\ LET r == open_cache(file, now) IN
       /\ last' = [op |-> "Cache", raised |-> r.raised, found |-> file.kind]
       /\ file' = r.file
       /\ now' = IF r.clock THEN now + 1 ELSE now
       /\ IF r.raised = ""
          THEN /\ cobj' = "open"
               /\ pers' = r.pers /\ status' = r.status /\ last_save' = r.last_save
          ELSE UNCHANGED <<cobj, pers, status, last_save>>
    /\ UNCHANGED <<tick, cpc, retryVars, dbVars, pipelineVars>>

\* Cache.cache(resp)
CacheResp(resp) ==
    /\ cobj = "open" /\ cpc = "idle"
    /\ pers' = cache(CacheState, resp).pers
    /\ status' = cache(CacheState, resp).status
    /\ last' = [op |-> "cache", raised |-> ""]
    /\ UNCHANGED <<tick, last_save, fileVars, retryVars, dbVars, pipelineVars>>

\* Cache.uncache_word(word)
Uncache(k) ==
    /\ cobj = "open" /\ cpc = "idle"
    /\ pers' = uncache_word(CacheState, k).pers
    /\ status' = uncache_word(CacheState, k).status
    /\ last' = [op |-> "uncache_word", raised |-> "", value |-> DictGet(pers, k)]
    /\ UNCHANGED <<tick, last_save, fileVars, retryVars, dbVars, pipelineVars>>

\* Cache.clear()
Clear ==
    /\ cobj = "open" /\ cpc = "idle"
    /\ pers' = clear(CacheState).pers
    /\ status' = clear(CacheState).status
    /\ last' = [op |-> "clear", raised |-> ""]
    /\ UNCHANGED <<tick, last_save, fileVars, retryVars, dbVars, pipelineVars>>

\* Cache.zap()
Zap ==
    /\ cobj = "open" /\ cpc = "idle"
    /\ now <= MaxClock
    /\ file' = Pickled(now, EmptyDict)
    /\ now' = now + 1
    /\ last' = [op |-> "zap", raised |-> ""]
    /\ UNCHANGED <<tick, pers, status, last_save, cobj, cpc, retryVars, dbVars, pipelineVars>>

\* Cache.commit_report()
CommitReport ==
    /\ cobj = "open" /\ cpc = "idle"
    /\ last' = commit_report(file, pers)
    /\ UNCHANGED <<tick, pers, status, last_save, fileVars, retryVars, dbVars, pipelineVars>>

\* Cache.commit(): t = datetime.datetime.now(); g = open(self.file, "bw").
\* Opening for writing empties the file.
CommitBegin ==
    /\ cobj = "open" /\ cpc = "idle"
    /\ now <= MaxClock
    /\ now' = now + 1
    /\ file' = Truncated
    /\ cpc' = "opened"
    /\ last' = [op |-> "commit", raised |-> "", done |-> FALSE,
                old |-> file, new |-> Pickled(now, pers)]
    /\ UNCHANGED <<tick, pers, status, last_save, cobj, retryVars, dbVars, pipelineVars>>

\* pickle.dump((t, self.pers), g) returns; what has reached the disk before
\* g is closed is all of the pickle or not
CommitDump ==
    /\ cpc = "opened"
    /\ \E f \in {Truncated, last.new} : file' = f
    /\ cpc' = "dumped"
    /\ UNCHANGED <<tick, last, pers, status, last_save, cobj, now, retryVars, dbVars, pipelineVars>>

\* pickle.dump raises (the docstring's "OS, IO or Pickle error"): commit
\* raises with the rest of its body not run
CommitDumpFail ==
    /\ cpc = "opened"
    /\ last' = [last EXCEPT !.raised = "OSError"]
    /\ cpc' = "idle"
    /\ UNCHANGED <<tick, pers, status, last_save, cobj, file, now, retryVars, dbVars, pipelineVars>>

\* g.close(); self.last_save = t; return self
CommitClose_keeps_last_save ==
    /\ cpc = "dumped"
    /\ file' = last.new
    /\ cpc' = "idle"
    /\ last' = [last EXCEPT !.done = TRUE]
    /\ UNCHANGED <<tick, pers, status, last_save, cobj, now, retryVars, dbVars, pipelineVars>>

CommitClose ==
    /\ cpc = "dumped"
    /\ file' = last.new
    /\ last_save' = Some(last.new.ts)
    /\ cpc' = "idle"
    /\ last' = [last EXCEPT !.done = TRUE]
    /\ UNCHANGED <<tick, pers, status, cobj, now, retryVars, dbVars, pipelineVars>>

\* the process ends, or is killed, and its Cache with it
Exit ==
    /\ cobj = "open"
    /\ cobj' = "none" /\ cpc' = "idle"
    /\ pers' = EmptyDict /\ status' = "" /\ last_save' = None
    /\ last' = IF cpc = "idle"
               THEN [op |-> "exit", during |-> cpc]
               ELSE [op |-> "exit", during |-> cpc, old |-> last.old, new |-> last.new]
    /\ UNCHANGED <<tick, file, now, retryVars, dbVars, pipelineVars>>

NextCache ==
    \/ Open
    \/ \E resp \in StoredResponses : CacheResp(resp)
    \/ \E k \in Keys : Uncache(k)
    \/ Clear
    \/ Zap
    \/ CommitReport
    \/ CommitBegin
    \/ CommitDump
    \/ CommitDumpFail
    \/ CommitClose
    \/ Exit

SpecCache == InitCache /\ [][NextCache]_vars

----------------------------------------------------------------------------
(* Properties of the flat Cache, checked under SpecCache. *)

\* a commit raised, or the process ended inside one
CommitBroken ==
    \/ last.op = "commit" /\ last.raised # ""
    \/ last.op = "exit" /\ last.during # "idle"

\* C5 as stated: when a commit fails or is interrupted partway, the file
\* holds either the pickle of (new timestamp, the mapping at commit time) or
\* what it held before the commit began.
C5_CommitAtomic == CommitBroken => file \in {last.old, last.new}

RangeOf(q) == {q[i] : i \in 1..Len(q)}

\* C6: commit_report, when it returns, returns the keys on disk and not in
\* memory, the keys in both, and the keys in memory and not on disk, and
\* changes neither the file nor the Cache.
C6_CommitReport ==
    [][(last'.op = "commit_report" /\ last'.raised = "") =>
         LET D == DictKeySet(file.map)
             M == DictKeySet(pers)
         IN  /\ file.kind = "valid"
             /\ RangeOf(last'.will_be_deleted) = D \ M
             /\ RangeOf(last'.will_be_replaced) = M \cap D
             /\ RangeOf(last'.will_be_added) = M \ D
             /\ file' = file /\ pers' = pers
             /\ status' = status /\ last_save' = last_save]_vars

\* a report with a key to delete, a key to add, and a key to replace whose
\* response in memory is not the one on disk
C6_Witness ==
    /\ last.op = "commit_report" /\ last.raised = ""
    /\ last.will_be_deleted # <<>>
    /\ last.will_be_added # <<>>
    /\ \E i \in 1..Len(last.will_be_replaced) :
         DictGet(pers, last.will_be_replaced[i])
           # DictGet(file.map, last.will_be_replaced[i])

\* C7: Cache(file) raises nothing; on a path with no file it starts empty
\* with status 'new cache', on a file pickle cannot load it starts empty
\* with status 'corrupted cache', and on a valid file it holds the file's
\* dict and timestamp with status 'reopened cache'.
C7_OpenTolerant ==
    [][(cobj = "none" /\ last'.op = "Cache") =>
         /\ last'.raised = "" /\ cobj' = "open"
         /\ file.kind = "missing" =>
              pers' = EmptyDict /\ status' = "new cache"
         /\ file.kind \in {"corrupt", "partial"} =>
              pers' = EmptyDict /\ status' = "corrupted cache"
         /\ file.kind = "valid" =>
              /\ pers' = file.map /\ last_save' = Some(file.ts)
              /\ status' = "reopened cache"]_vars

\* a Cache opened on the file a broken commit left behind
C7_Witness ==
    /\ last.op = "Cache" /\ last.found = "partial"
    /\ cobj = "open" /\ status = "corrupted cache" /\ pers = EmptyDict

----------------------------------------------------------------------------
(* DbCache: the sqlite backing.  A database state ds is [conn, disk]: the  *)
(* rows of table cache as the connection sees them, its open transaction   *)
(* included, and as committed.  A row is [k |-> <<word, lang>>, v |-> the  *)
(* pickled response], rows in order of insertion.                          *)

\* what an instance of MorpheusResponse answers to
MorpheusResponseAttrs ==
    {"url", "text", "exn", "__init__", "__str__", "is_ok", "key", "retry",
     "make_analysis_list", "save_text"}

\* what an instance of DbCache answers to
DbCacheAttrs ==
    {"cnx", "__init__", "insert", "cache", "close", "count", "lookup_word",
     "zap", "update", "import_cache", "default"}

pickle_dumps(resp) == [pickle |-> resp]
pickle_loads(blob) == blob.pickle

\* cnx.commit()
db_commit(ds) == [conn |-> ds.conn, disk |-> ds.conn]

\* DbCache.insert(resp)
DbCache_insert(ds, resp) ==
    IF "word" \notin MorpheusResponseAttrs
    THEN \* resp.word() does not exist
         [raised |-> "AttributeError", ds |-> ds]
    ELSE IF DictHas(ds.conn, key(resp))
    THEN [raised |-> "IntegrityError", ds |-> ds]
    ELSE [raised |-> "",
          ds |-> db_commit([conn |-> Append(ds.conn, [k |-> key(resp),
                                                       v |-> pickle_dumps(resp)]),
                            disk |-> ds.disk])]

\* DbCache.update(resp)
DbCache_update(ds, resp) ==
    IF "word" \notin MorpheusResponseAttrs
    THEN [raised |-> "AttributeError", ds |-> ds]
    ELSE \* "... and lang = l": sqlite knows no column l
         [raised |-> "OperationalError", ds |-> ds]

\* DbCache.cache(resp)
DbCache_cache(ds, resp) ==
    LET r == DbCache_insert(ds, resp) IN
    IF r.raised = "IntegrityError" THEN DbCache_update(r.ds, resp) ELSE r

\* DbCache.lookup_word(word)
DbCache_lookup_word(ds, k) ==
    LET r == DictGet(ds.conn, k) IN
    IF r = None THEN None ELSE Some(pickle_loads(r[1]))

\* DbCache.count(lang); lang "all" stands for None
DbCache_count(ds, lang) ==
    Cardinality({i \in 1..Len(ds.conn) : lang = "all" \/ ds.conn[i].k[2] = lang})

\* DbCache.zap(): the delete is not committed
DbCache_zap(ds) == [conn |-> <<>>, disk |-> ds.disk]

\* the callables handed to Cache.triples; "all" stands for None
Filters == {"all", "ok", "la"}
apply_filter(f, w, l, resp) ==
    IF f = "all" THEN TRUE ELSE IF f = "ok" THEN is_ok(resp) ELSE l = "la"

\* Cache.triples(filter), each triple as a row
triples(d, f) ==
    LET kept == SelectSeq(d, LAMBDA e : apply_filter(f, e.k[1], e.k[2], e.v))
    IN  [i \in 1..Len(kept) |-> [k |-> kept[i].k, v |-> pickle_dumps(kept[i].v)]]

\* cnx.executemany("insert into cache values (?,?,?)", rows): the rows are
\* inserted one statement at a time inside the transaction the first insert
\* opens; a key violation aborts that statement and leaves the transaction
\* open with the rows inserted so far
RECURSIVE executemany(_, _)
executemany(conn, rows) ==
    IF rows = <<>> THEN [raised |-> "", conn |-> conn]
    ELSE IF DictHas(conn, Head(rows).k)
    THEN [raised |-> "IntegrityError", conn |-> conn]
    ELSE executemany(Append(conn, Head(rows)), Tail(rows))

\* DbCache.import_cache(cache, filter)
DbCache_import_cache(ds, d, f) ==
    LET r == executemany(ds.conn, triples(d, f)) IN
    IF r.raised # ""
    THEN [raised |-> r.raised, ds |-> [conn |-> r.conn, disk |-> ds.disk]]
    ELSE [raised |-> "", ds |-> db_commit([conn |-> r.conn, disk |-> ds.disk])]

\* MorpheusUrl.fetch(cache) with a DbCache
fetch_db(url, ds, o) ==
    IF "lookup_key" \notin DbCacheAttrs
    THEN \* cache.lookup_key does not exist
         [raised |-> "AttributeError", nreq |-> 0, resp |-> None, ds |-> ds]
    ELSE LET found == DbCache_lookup_word(ds, url) IN
         IF must_fetch(found)
         THEN LET r == fetch_remote(url, o) IN
              IF r.raised # ""
              THEN [raised |-> r.raised, nreq |-> r.nreq, resp |-> None, ds |-> ds]
              ELSE LET c == DbCache_cache(ds, r.resp[1]) IN
                   [raised |-> c.raised, nreq |-> r.nreq,
                    resp |-> IF c.raised = "" THEN r.resp ELSE None, ds |-> c.ds]
         ELSE [raised |-> "", nreq |-> 0, resp |-> found, ds |-> ds]

DbState == [conn |-> dbConn, disk |-> dbDisk]

----------------------------------------------------------------------------
(* The DbCache as a state machine, beside a flat Cache that Cache.cache    *)
(* fills and import_cache reads.                                           *)

flatVars == <<last, pers, status, last_save, fileVars, retryVars>>

DbInsert(resp) ==
    /\ dcnx = "open"
    /\ LET r == DbCache_insert(DbState, resp) IN
       /\ dblast' = [op |-> "insert", raised |-> r.raised, resp |-> resp]
       /\ dbConn' = r.ds.conn /\ dbDisk' = r.ds.disk
    /\ tick' = ~tick
    /\ UNCHANGED <<dcnx, flatVars, pipelineVars>>

DbCacheResp(resp) ==
    /\ dcnx = "open"
    /\ LET r == DbCache_cache(DbState, resp) IN
       /\ dblast' = [op |-> "cache", raised |-> r.raised, resp |-> resp]
       /\ dbConn' = r.ds.conn /\ dbDisk' = r.ds.disk
    /\ tick' = ~tick
    /\ UNCHANGED <<dcnx, flatVars, pipelineVars>>

DbUpdate(resp) ==
    /\ dcnx = "open"
    /\ LET r == DbCache_update(DbState, resp) IN
       /\ dblast' = [op |-> "update", raised |-> r.raised, resp |-> resp]
       /\ dbConn' = r.ds.conn /\ dbDisk' = r.ds.disk
    /\ tick' = ~tick
    /\ UNCHANGED <<dcnx, flatVars, pipelineVars>>

DbLookupWord(k) ==
    /\ dcnx = "open"
    /\ dblast' = [op |-> "lookup_word", raised |-> "",
                  resp |-> DbCache_lookup_word(DbState, k)]
    /\ tick' = ~tick
    /\ UNCHANGED <<dcnx, dbConn, dbDisk, flatVars, pipelineVars>>

DbCount(lang) ==
    /\ dcnx = "open"
    /\ dblast' = [op |-> "count", raised |-> "", n |-> DbCache_count(DbState, lang)]
    /\ tick' = ~tick
    /\ UNCHANGED <<dcnx, dbConn, dbDisk, flatVars, pipelineVars>>

DbZap ==
    /\ dcnx = "open"
    /\ dbConn' = DbCache_zap(DbState).conn
    /\ dbDisk' = DbCache_zap(DbState).disk
    /\ dblast' = [op |-> "zap", raised |-> ""]
    /\ tick' = ~tick
    /\ UNCHANGED <<dcnx, flatVars, pipelineVars>>

DbImport(f) ==
    /\ dcnx = "open" /\ cobj = "open"
    /\ LET r == DbCache_import_cache(DbState, pers, f) IN
       /\ dblast' = [op |-> "import_cache", raised |-> r.raised, filter |-> f]
       /\ dbConn' = r.ds.conn /\ dbDisk' = r.ds.disk
    /\ tick' = ~tick
    /\ UNCHANGED <<dcnx, flatVars, pipelineVars>>

\* DbCache.close(): what was not committed is rolled back
DbClose ==
    /\ dcnx = "open"
    /\ dcnx' = "closed"
    /\ dbConn' = dbDisk
    /\ dblast' = [op |-> "close", raised |-> ""]
    /\ tick' = ~tick
    /\ UNCHANGED <<dbDisk, flatVars, pipelineVars>>

\* DbCache(file) on the database of a closed DbCache: the table exists
DbOpen ==
    /\ dcnx = "closed"
    /\ dcnx' = "open"
    /\ dblast' = [op |-> "DbCache", raised |-> ""]
    /\ tick' = ~tick
    /\ UNCHANGED <<dbConn, dbDisk, flatVars, pipelineVars>>

InitDb == InitCalls /\ NewCache /\ InitRetry /\ NewDbCache /\ NoPipeline

NextDb ==
    \/ \E resp \in StoredResponses : CacheResp(resp)
    \/ \E resp \in StoredResponses : DbInsert(resp)
    \/ \E resp \in StoredResponses : DbCacheResp(resp)
    \/ \E resp \in StoredResponses : DbUpdate(resp)
    \/ \E k \in Keys : DbLookupWord(k)
    \/ \E lang \in {"all", "la", "greek"} : DbCount(lang)
    \/ DbZap
    \/ \E f \in Filters : DbImport(f)
    \/ DbClose
    \/ DbOpen

SpecDb == InitDb /\ [][NextDb]_vars

----------------------------------------------------------------------------
(* Properties of the DbCache, checked under SpecDb. *)

\* C8 as stated: import_cache either inserts every entry of the source that
\* passes the filter and commits, or raises and leaves the table, as the
\* connection sees it and as committed, with the rows it had before.
C8_ImportAllOrNothing ==
    [][(tick' # tick /\ dblast'.op = "import_cache") =>
         IF dblast'.raised = ""
         THEN /\ \A i \in 1..Len(pers) :
                   apply_filter(dblast'.filter, pers[i].k[1], pers[i].k[2], pers[i].v)
                     => DictGet(dbConn', pers[i].k) = Some(pickle_dumps(pers[i].v))
              /\ dbDisk' = dbConn'
         ELSE dbConn' = dbConn /\ dbDisk' = dbDisk]_vars

\* C9 as stated: DbCache.cache(resp) raises nothing, a lookup of resp's key
\* then returns resp, and no other row has changed.
C9_CacheStores ==
    [][(tick' # tick /\ dblast'.op = "cache") =>
         /\ dblast'.raised = ""
         /\ DictGet(dbConn', key(dblast'.resp)) = Some(pickle_dumps(dblast'.resp))
         /\ \A k \in Keys \ {key(dblast'.resp)} :
              DictGet(dbConn', k) = DictGet(dbConn, k)]_vars

----------------------------------------------------------------------------
(* The two backings side by side: every call is made on a flat Cache and   *)
(* on a DbCache, both new, the service answering both alike.               *)

BothFetch(url) ==
    /\ \E o \in Outcomes :
         LET r == fetch(url, "flat", CacheState, o)
             q == fetch_db(url, DbState, o)
         IN  /\ last' = [op |-> "fetch", url |-> url, cache |-> "flat",
                         raised |-> r.raised, resp |-> r.resp, nreq |-> r.nreq,
                         sent |-> IF r.nreq = 0 THEN None ELSE Some(o)]
             /\ pers' = r.cs.pers /\ status' = r.cs.status
             /\ dblast' = [op |-> "fetch", url |-> url, cache |-> "db",
                           raised |-> q.raised, resp |-> q.resp, nreq |-> q.nreq,
                           sent |-> IF q.nreq = 0 THEN None ELSE Some(o)]
             /\ dbConn' = q.ds.conn /\ dbDisk' = q.ds.disk
    /\ tick' = ~tick
    /\ UNCHANGED <<last_save, fileVars, retryVars, dcnx, pipelineVars>>

BothCache(resp) ==
    /\ LET q == DbCache_cache(DbState, resp) IN
       /\ dblast' = [op |-> "cache", raised |-> q.raised, resp |-> None]
       /\ dbConn' = q.ds.conn /\ dbDisk' = q.ds.disk
    /\ last' = [op |-> "cache", raised |-> "", resp |-> None]
    /\ pers' = cache(CacheState, resp).pers
    /\ status' = cache(CacheState, resp).status
    /\ tick' = ~tick
    /\ UNCHANGED <<last_save, fileVars, retryVars, dcnx, pipelineVars>>

\* cache.lookup_word(word): the one lookup both classes define
BothLookupWord(k) ==
    /\ last' = [op |-> "lookup_word", raised |-> "", resp |-> DictGet(pers, k)]
    /\ dblast' = [op |-> "lookup_word", raised |-> "",
                  resp |-> DbCache_lookup_word(DbState, k)]
    /\ tick' = ~tick
    /\ UNCHANGED <<pers, status, last_save, fileVars, retryVars, dcnx, dbConn, dbDisk, pipelineVars>>

NextBacking ==
    \/ \E url \in Keys : BothFetch(url)
    \/ \E resp \in StoredResponses : BothCache(resp)
    \/ \E k \in Keys : BothLookupWord(k)

SpecBacking == InitDb /\ [][NextBacking]_vars

\* the key -> response mapping a backing holds
FlatMapping == [k \in Keys |-> DictGet(pers, k)]
DbMapping == [k \in Keys |-> DbCache_lookup_word(DbState, k)]

\* C10 as stated: the same calls made on a Cache and on a DbCache return
\* the same results and leave the same key -> response mapping.
C10_Interchangeable ==
    /\ dblast.op = last.op
    /\ last.op # "none" =>
         /\ dblast.raised = last.raised
         /\ dblast.resp = last.resp
    /\ DbMapping = FlatMapping

----------------------------------------------------------------------------
(* The tokenizer: WordStream.  A character is a one-character string, a    *)
(* str is the sequence of its characters.  "Beta" stands for the one       *)
(* character GREEK CAPITAL LETTER BETA and "beta" for its lower case.      *)

\* the characters the texts are made of
Chars == {"a", "M", "Beta", " ", ".", ","}

Texts == SeqsUpTo(Chars, MaxText)

\* str.isspace() on one character
isspace(c) == c = " "

Latin_is_letter(c) == c \in {"a", "m", "M"}

UniGreek_is_letter(c) == c \in {"beta", "Beta"}

BetaCode_is_letter(c) == c \in {"a", "m", "M", "*", "/"}

\* str.lower() on one character
lower_char(c) ==
    IF c = "M" THEN "m" ELSE IF c = "Beta" THEN "beta"
    ELSE IF c = "A" THEN "a" ELSE IF c = "B" THEN "b" ELSE IF c = "S" THEN "s"
    ELSE IF c = "Alpha" THEN "alpha" ELSE IF c = "Mu" THEN "mu"
    ELSE IF c = "Sigma" THEN "sigma"
    ELSE IF c = "Alpha_acute" THEN "alpha_acute"
    ELSE IF c = "Alpha_grave" THEN "alpha_grave" ELSE c

\* str.lower()
lower(s) == [k \in 1..Len(s) |-> lower_char(s[k])]

\* s.rstrip(chars)
RECURSIVE rstrip(_, _)
rstrip(s, chars) ==
    IF s # <<>> /\ s[Len(s)] \in chars
    THEN rstrip(SubSeq(s, 1, Len(s) - 1), chars)
    ELSE s

\* the lines of abbrs.la
Abbrs == {<<"M", ".">>}

\* the module function is_letter; lang and greek_mode are valid once the
\* constructor has returned
is_letter(c, lang, greek_mode, mixed) ==
    IF mixed THEN Latin_is_letter(c) \/ UniGreek_is_letter(c)
    ELSE IF lang = "la" THEN Latin_is_letter(c)
    ELSE IF greek_mode = Some("betacode") THEN BetaCode_is_letter(c)
    ELSE UniGreek_is_letter(c)

\* "literal" + x raises TypeError unless x is a str
concat_raises(x) == IF x = None THEN "TypeError" ELSE ""

\* the arguments lang, greek_mode (None when omitted) and mixed
Langs == {"la", "greek", "mixed"}
GreekModes == {None, Some("betacode"), Some("unicode"), Some("utf8")}

\* WordStream.__init__: the exception raised ("" if none) and the instance
WordStream_init(lang, greek_mode, mixed) ==
    LET self == [lang |-> lang, greek_mode |-> greek_mode, mixed |-> mixed,
                 i |-> 0, c |-> 0, s |-> 0, acc |-> <<>>, acc_ct |-> 0,
                 seps |-> {}, terms |-> {}, abbr_term |-> <<>>, abbrs |-> {}]
        LangError(x) == IF concat_raises(x) # "" THEN concat_raises(x)
                        ELSE "LangError"
    IN  IF mixed /\ greek_mode # Some("unicode")
        THEN [raised |-> "LangError", self |-> self]
        ELSE IF lang = "la"
        THEN [raised |-> "",
              self |-> [self EXCEPT !.seps = {",", ";", ":"},
                                    !.terms = {".", "?"},
                                    !.abbr_term = <<".">>,
                                    !.abbrs = Abbrs]]
        ELSE IF lang = "greek"
        THEN IF greek_mode = Some("betacode")
             THEN [raised |-> "",
                   self |-> [self EXCEPT !.seps = {",", ":"},
                                         !.terms = {".", ";"}]]
             ELSE IF greek_mode = Some("unicode")
             THEN [raised |-> "",
                   self |-> [self EXCEPT !.seps = {",", ":", "middle dot"},
                                         !.terms = {".", ";"}]]
             ELSE [raised |-> LangError(greek_mode), self |-> self]
        ELSE [raised |-> LangError(Some(lang)), self |-> self]

abbr_check(self, s) == s \in self.abbrs

\* WordStream.det_lang
det_lang_any(self, s) ==
    IF self.mixed
    THEN IF \E k \in 1..Len(s) : Latin_is_letter(s[k])
         THEN [raised |-> "", lang |-> "la"]
         ELSE IF \E k \in 1..Len(s) : UniGreek_is_letter(s[k])
         THEN [raised |-> "", lang |-> "greek"]
         ELSE [raised |-> "LangError", lang |-> ""]
    ELSE [raised |-> "", lang |-> self.lang]

det_lang(self, s) ==
    IF self.mixed
    THEN IF \A k \in 1..Len(s) : Latin_is_letter(s[k])
         THEN [raised |-> "", lang |-> "la"]
         ELSE IF \A k \in 1..Len(s) : UniGreek_is_letter(s[k])
         THEN [raised |-> "", lang |-> "greek"]
         ELSE [raised |-> "LangError", lang |-> ""]
    ELSE [raised |-> "", lang |-> self.lang]

\* Word(label, word, lang, greek_mode, w, c, s); the label plays no part
Word(word, lang, greek_mode, w, c, s) ==
    [word |-> word, lang |-> lang, term |-> None, greek_mode |-> greek_mode,
     w |-> w, c |-> c, s |-> s]

\* the token without its punctuation: s.rstrip(self.seps + self.terms)
strip_terms_only(self, s) == rstrip(s, self.terms)

strip_token(self, s) == rstrip(s, self.seps \cup self.terms)

\* the test that guards self.c = self.c + 1
clause_ends_unchecked(self, t, u) == t \in self.seps \cup self.terms

clause_ends(self, t, u) ==
    t \in self.seps \cup self.terms /\ ~abbr_check(self, u \o self.abbr_term)

\* the test that guards self.s = self.s + 1
sentence_ends_on_seps(self, t, u) ==
    t \in self.seps \cup self.terms /\ ~abbr_check(self, u \o self.abbr_term)

sentence_ends(self, t, u) ==
    t \in self.terms /\ ~abbr_check(self, u \o self.abbr_term)

\* the ordinals after the Word was made
ordinals_clause_twice(self, t, u) ==
    [c |-> self.c + (IF clause_ends(self, t, u) THEN 1 ELSE 0)
                  + (IF sentence_ends(self, t, u) THEN 1 ELSE 0),
     s |-> self.s,
     i |-> self.i + 1]

ordinals_clause_on_seps(self, t, u) ==
    [c |-> IF t \in self.seps /\ ~abbr_check(self, u \o self.abbr_term)
           THEN self.c + 1 ELSE self.c,
     s |-> IF sentence_ends(self, t, u) THEN self.s + 1 ELSE self.s,
     i |-> self.i + 1]

ordinals(self, t, u) ==
    [c |-> IF clause_ends(self, t, u) THEN self.c + 1 ELSE self.c,
     s |-> IF sentence_ends(self, t, u) THEN self.s + 1 ELSE self.s,
     i |-> self.i + 1]

\* WordStream.conv_acc: the exception raised, the Word returned and the
\* instance afterwards
conv_acc(self) ==
    LET s == rstrip(self.acc, {" "})
        reset == [self EXCEPT !.acc = <<>>, !.acc_ct = 0]
    IN  IF s = <<>>
        THEN [raised |-> "IndexError", word |-> None, self |-> reset]
        ELSE
        LET t == s[Len(s)]
            u == strip_token(self, s)
            l == det_lang(self, u)
            a == Word(u, l.lang, self.greek_mode, self.i, self.c, self.s)
            o == ordinals(self, t, u)
        IN  IF l.raised # ""
            THEN [raised |-> l.raised, word |-> None, self |-> reset]
            ELSE [raised |-> "",
                  word |-> Some([a EXCEPT !.term =
                                 IF t \in self.seps \cup self.terms
                                 THEN Some(t) ELSE None]),
                  self |-> [reset EXCEPT !.c = o.c, !.s = o.s, !.i = o.i]]

----------------------------------------------------------------------------
(* The tokenizer as a state machine.  A step is one pass of the loop of    *)
(* __next__: it reads one character.  The caller calls next() again after  *)
(* every return and every raise, so the passes follow one another.         *)

lookupVars == <<last, pers, status, last_save, fileVars, retryVars, dbVars>>

\* a text waits for a WordStream to be constructed on it
InitWords ==
    /\ InitCalls /\ NewCache /\ InitRetry /\ NewDbCache
    /\ ws_pc = "new" /\ ws = [lang |-> "none"] /\ ws_text \in Texts
    /\ wlast = [op |-> "none"] /\ nwords = 0
    /\ al = <<>> /\ alast = [op |-> "none"] /\ an = NoAnalyses

\* WordStream.from_text(label, text, lang, greek_mode, mixed)
Construct(lang, greek_mode, mixed) ==
    /\ ws_pc = "new"
    /\ LET r == WordStream_init(lang, greek_mode, mixed) IN
       /\ ws' = r.self
       /\ ws_pc' = IF r.raised = "" THEN "open" ELSE "failed"
       /\ wlast' = [op |-> "WordStream", raised |-> r.raised,
                    word |-> None, raw |-> <<>>,
                    lang |-> lang, greek_mode |-> greek_mode,
                    mixed |-> mixed, unread |-> ws_text]
    /\ tick' = ~tick
    /\ UNCHANGED <<ws_text, nwords, anVars, lookupVars>>

\* a call of conv_acc ends the call of next(): it returns a Word or raises
Convert(self, at) ==
    LET r == conv_acc(self) IN
    /\ ws' = r.self
    /\ wlast' = [op |-> "next", raised |-> r.raised, word |-> r.word,
                 raw |-> self.acc, at |-> at]
    /\ nwords' = IF r.raised = "" THEN nwords + 1 ELSE nwords
    /\ tick' = ~tick

\* read(1) returns '': the text is exhausted
ReadEnd_drops_token ==
    /\ ws_pc \in {"open", "done"}
    /\ ws_text = <<>>
    /\ wlast' = [op |-> "next", raised |-> "StopIteration",
                 word |-> None, raw |-> <<>>, at |-> "end"]
    /\ ws_pc' = "done"
    /\ tick' = ~tick
    /\ UNCHANGED <<ws, nwords, ws_text, anVars, lookupVars>>

ReadEnd ==
    /\ ws_pc \in {"open", "done"}
    /\ ws_text = <<>>
    /\ IF ws.acc_ct > 0
       THEN Convert(ws, "end") /\ UNCHANGED ws_pc
       ELSE /\ wlast' = [op |-> "next", raised |-> "StopIteration",
                         word |-> None, raw |-> <<>>, at |-> "end"]
            /\ ws_pc' = "done"
            /\ tick' = ~tick
            /\ UNCHANGED <<ws, nwords>>
    /\ UNCHANGED <<ws_text, anVars, lookupVars>>

\* read(1) returns white space
ReadSpace ==
    /\ ws_pc = "open"
    /\ ws_text # <<>> /\ isspace(Head(ws_text))
    /\ ws_text' = Tail(ws_text)
    /\ IF ws.acc_ct > 0
       THEN Convert(ws, "space")
       ELSE UNCHANGED <<ws, wlast, nwords, tick>>
    /\ UNCHANGED <<ws_pc, anVars, lookupVars>>

\* read(1) returns a separator or a terminator
ReadPunct ==
    /\ ws_pc = "open"
    /\ ws_text # <<>> /\ ~isspace(Head(ws_text))
    /\ Head(ws_text) \in ws.terms \cup ws.seps
    /\ ws_text' = Tail(ws_text)
    /\ Convert([ws EXCEPT !.acc = Append(@, Head(ws_text))], "punct")
    /\ UNCHANGED <<ws_pc, anVars, lookupVars>>

\* read(1) returns any other character
ReadOther ==
    /\ ws_pc = "open"
    /\ ws_text # <<>> /\ ~isspace(Head(ws_text))
    /\ Head(ws_text) \notin ws.terms \cup ws.seps
    /\ ws_text' = Tail(ws_text)
    /\ ws' = IF is_letter(Head(ws_text), ws.lang, ws.greek_mode, ws.mixed)
             THEN [ws EXCEPT !.acc = Append(@, Head(ws_text)),
                             !.acc_ct = @ + 1]
             ELSE ws
    /\ UNCHANGED <<ws_pc, wlast, nwords, tick, anVars, lookupVars>>

NextWords ==
    \/ \E lang \in Langs, greek_mode \in GreekModes, mixed \in BOOLEAN :
           Construct(lang, greek_mode, mixed)
    \/ ReadEnd
    \/ ReadSpace
    \/ ReadPunct
    \/ ReadOther

SpecWords == InitWords /\ [][NextWords]_vars

----------------------------------------------------------------------------
(* Properties of the tokenizer. *)

\* the step ends a call of next() by returning a Word
WordReturned == tick' # tick /\ wlast'.op = "next" /\ wlast'.raised = ""

\* the raw token ends a sentence under Latin rules: its last character is a
\* sentence terminator and the token is not a known abbreviation
EndsLatinSentence(raw) ==
    /\ raw[Len(raw)] \in {".", "?"}
    /\ rstrip(raw, {",", ";", ":", ".", "?"}) \o <<".">> \notin Abbrs

\* C11: tokenizing a Latin stream, the k-th Word returned carries word
\* ordinal k (from 0) and the clause and sentence ordinals in force; the
\* sentence ordinal, and with it the clause ordinal, rises by one right
\* after a Word whose last raw character is a sentence terminator and that
\* is not an abbreviation, and the sentence ordinal changes nowhere else.
C11_LatinOrdinals ==
    [][(ws_pc = "open" /\ ws.lang = "la") =>
        IF WordReturned
        THEN LET w == wlast'.word[1] IN
             /\ w.w = nwords /\ w.c = ws.c /\ w.s = ws.s
             /\ IF EndsLatinSentence(wlast'.raw)
                THEN ws'.s = ws.s + 1 /\ ws'.c = ws.c + 1
                ELSE ws'.s = ws.s
        ELSE ws'.s = ws.s /\ ws'.c = ws.c /\ nwords' = nwords]_vars

\* the second Word of "a. a": word ordinal 1, clause and sentence ordinal 1
C11_Witness ==
    /\ ws_pc = "open" /\ ws.lang = "la" /\ wlast.op = "next"
    /\ wlast.word # None
    /\ wlast.word[1].w = 1 /\ wlast.word[1].c = 1 /\ wlast.word[1].s = 1
    /\ wlast.word[1].word = <<"a">>

\* C12: from one Word returned to the next the word ordinal rises by
\* exactly 1, and the clause and sentence ordinals never fall and rise by
\* at most 1.
C12_Monotone ==
    [][ws_pc = "open" =>
        /\ ws'.i = IF WordReturned THEN ws.i + 1 ELSE ws.i
        /\ WordReturned =>
              /\ wlast'.word[1].w = ws.i
              /\ wlast'.word[1].c = ws.c
              /\ wlast'.word[1].s = ws.s
              /\ ws'.c \in {ws.c, ws.c + 1}
              /\ ws'.s \in {ws.s, ws.s + 1}
        /\ ~WordReturned => ws'.c = ws.c /\ ws'.s = ws.s]_vars

\* a second Word was returned after a first one that ended a clause
C12_Witness ==
    /\ ws_pc = "open" /\ wlast.op = "next" /\ wlast.word # None
    /\ nwords = 2
    /\ wlast.word[1].w = 1 /\ wlast.word[1].c = 1 /\ wlast.word[1].s = 0

\* C13: a separator or terminator read while the accumulator is empty
\* returns no Word and advances no ordinal, and no Word returned has empty
\* text.
C13_NoWordForPunctuation ==
    [][ws_pc = "open" =>
        /\ (/\ ws_text # <<>>
            /\ Head(ws_text) \in ws.seps \cup ws.terms
            /\ ws.acc_ct = 0)
           => /\ nwords' = nwords
              /\ ws'.i = ws.i /\ ws'.c = ws.c /\ ws'.s = ws.s
        /\ WordReturned => wlast'.word[1].word # <<>>]_vars

\* read(1) never blocks on a text: a pass of the loop that can run does run
SpecWordsFair == SpecWords /\ WF_vars(NextWords)

\* the token holds a Latin letter and a Greek letter
MixedToken(u) ==
    /\ \E k \in 1..Len(u) : Latin_is_letter(u[k])
    /\ \E k \in 1..Len(u) : UniGreek_is_letter(u[k])

C15_Abbreviation ==
    [][(ws_pc = "open" /\ WordReturned) =>
        LET raw == wlast'.raw
            t == raw[Len(raw)]
            u == rstrip(raw, ws.seps \cup ws.terms)
        IN  IF u \o ws.abbr_term \in ws.abbrs
            THEN ws'.c = ws.c /\ ws'.s = ws.s
            ELSE /\ ws'.c = IF t \in ws.seps \cup ws.terms
                            THEN ws.c + 1 ELSE ws.c
                 /\ ws'.s = IF t \in ws.terms THEN ws.s + 1 ELSE ws.s]_vars

\* the abbreviation "M." was returned as the first Word and no clause ended
C15_Witness ==
    /\ ws_pc = "open" /\ wlast.op = "next" /\ wlast.raised = ""
    /\ wlast.raw = <<"M", ".">> /\ wlast.word[1].term = Some(".")
    /\ ws.i = 1 /\ ws.c = 0 /\ ws.s = 0

\* C16 as stated: the text of a Word is the accumulated characters without
\* the trailing separators and terminators, lower-cased when the Word is
\* Greek, and term is the last raw character when that is a separator or
\* terminator and None otherwise.
C16_TextLowerCased ==
    [][(ws_pc = "open" /\ WordReturned) =>
        LET w == wlast'.word[1]
            raw == wlast'.raw
            t == raw[Len(raw)]
            u == rstrip(raw, ws.seps \cup ws.terms)
        IN  /\ w.word = IF w.lang = "greek" THEN lower(u) ELSE u
            /\ w.term = IF t \in ws.seps \cup ws.terms
                        THEN Some(t) ELSE None]_vars

\* C16 amended: the text of a Word is the accumulated characters without
\* the trailing separators and terminators, in the case they were read in,
\* Greek included, and term is the last raw character when that is a
\* separator or terminator and None otherwise.
C16_TextAsRead ==
    [][(ws_pc = "open" /\ WordReturned) =>
        LET w == wlast'.word[1]
            raw == wlast'.raw
            t == raw[Len(raw)]
        IN  /\ w.word = rstrip(raw, ws.seps \cup ws.terms)
            /\ w.term = IF t \in ws.seps \cup ws.terms
                        THEN Some(t) ELSE None]_vars

\* a Greek Word read as a capital letter and a separator was returned
C16_Witness ==
    /\ ws_pc = "open" /\ wlast.op = "next" /\ wlast.raised = ""
    /\ wlast.raw = <<"Beta", ",">>
    /\ wlast.word[1].lang = "greek" /\ wlast.word[1].term = Some(",")

\* C17: in mixed mode a Word is 'la' when its stripped text is all Latin
\* letters and 'greek' when it is all Greek letters (the Latin test comes
\* first); a token with letters of both raises LangError, no Word is
\* returned and the word, clause and sentence ordinals stay as they were.
C17_MixedLanguage ==
    [][(/\ ws_pc = "open" /\ ws.mixed
        /\ tick' # tick /\ wlast'.op = "next"
        /\ wlast'.raised # "StopIteration") =>
        LET u == rstrip(wlast'.raw, ws.seps \cup ws.terms)
            latin == \A k \in 1..Len(u) : Latin_is_letter(u[k])
            greek == \A k \in 1..Len(u) : UniGreek_is_letter(u[k])
        IN  IF MixedToken(u)
            THEN /\ wlast'.raised = "LangError" /\ wlast'.word = None
                 /\ nwords' = nwords
                 /\ ws'.i = ws.i /\ ws'.c = ws.c /\ ws'.s = ws.s
            ELSE /\ wlast'.raised = ""
                 /\ latin => wlast'.word[1].lang = "la"
                 /\ (greek /\ ~latin) => wlast'.word[1].lang = "greek"
                 /\ latin \/ greek]_vars

\* a token of a Latin and a Greek letter raised LangError
C17_Witness ==
    /\ ws_pc = "open" /\ ws.mixed /\ wlast.op = "next"
    /\ wlast.raised = "LangError" /\ wlast.raw = <<"a", "Beta", ".">>
    /\ nwords = 0 /\ ws.i = 0 /\ ws.c = 0 /\ ws.s = 0

\* the argument combinations the constructor must refuse
InvalidArgs(lang, greek_mode, mixed) ==
    \/ lang \notin {"la", "greek"}
    \/ lang = "greek" /\ greek_mode \notin {Some("betacode"), Some("unicode")}
    \/ mixed /\ greek_mode # Some("unicode")

\* C18: constructing a WordStream with an invalid combination of lang,
\* greek_mode (omitted included) and mixed raises LangError in the
\* constructor, before a character of the text is read.
C18_ConfigurationError ==
    [][(/\ ws_pc = "new" /\ tick' # tick /\ wlast'.op = "WordStream"
        /\ InvalidArgs(wlast'.lang, wlast'.greek_mode, wlast'.mixed)) =>
        /\ wlast'.raised = "LangError"
        /\ ws_pc' = "failed" /\ ws_text' = ws_text]_vars

----------------------------------------------------------------------------
(* The normalizer: Analysis and AnalysisList.  An Analysis is its          *)
(* <analysis> element: elem is the list of its child elements in document  *)
(* order, each with its tag and text, lang is the lang attribute of <form> *)
(* and sfx the sfx attribute of <lemma> (None until the lemma fix sets     *)
(* it), and word is the Word the record was made for.  Morpheus gives an   *)
(* analysis one child per feature; a fix can append a second one.          *)
(* A str is the sequence of its characters and an int n is <<"int", n>>.   *)

isdigit(c) == c \in {"0", "1", "2", "3", "4", "5", "6", "7", "8", "9"}

\* unicodedata.category on one character of the alphabets of the model
category(c) ==
    IF c \in {"A", "B", "S", "M", "Alpha", "Mu", "Sigma", "Beta",
              "Alpha_acute", "Alpha_grave"} THEN "Lu"
    ELSE IF c \in {"a", "b", "s", "m", "alpha", "mu", "sigma", "fsigma", "beta",
                   "alpha_acute", "alpha_grave", "alpha_circ"} THEN "Ll"
    ELSE IF c \in {"acute", "grave", "circ"} THEN "Mn"
    ELSE IF isdigit(c) THEN "Nd"
    ELSE IF c = "=" THEN "Sm"
    ELSE IF c = " " THEN "Zs"
    ELSE "Po"

\* str.isalpha() on one character
isalpha(c) == category(c) \in {"Lu", "Ll"}

\* str.upper() on one character that has a one-character upper case
upper_char(c) ==
    IF c = "a" THEN "A" ELSE IF c = "b" THEN "B"
    ELSE IF c = "s" THEN "S" ELSE IF c = "m" THEN "M"
    ELSE IF c = "alpha" THEN "Alpha" ELSE IF c = "mu" THEN "Mu"
    ELSE IF c \in {"sigma", "fsigma"} THEN "Sigma"
    ELSE IF c = "beta" THEN "Beta"
    ELSE IF c = "alpha_acute" THEN "Alpha_acute"
    ELSE IF c = "alpha_grave" THEN "Alpha_grave" ELSE c

\* the module function num_sfx: the string without its terminal run of
\* digits, and that run
num_sfx_one_digit(s) ==
    IF s # <<>> /\ isdigit(s[Len(s)])
    THEN <<SubSeq(s, 1, Len(s) - 1), <<s[Len(s)]>>>>
    ELSE <<s, <<>>>>

RECURSIVE num_sfx(_)
num_sfx(s) ==
    IF s # <<>> /\ isdigit(s[Len(s)])
    THEN LET r == num_sfx(SubSeq(s, 1, Len(s) - 1)) IN
         <<r[1], Append(r[2], s[Len(s)])>>
    ELSE <<s, <<>>>>

\* Word.from_str: a Word without a textual context
from_str(word, lang, greek_mode) == Word(word, lang, greek_mode, 0, 0, 0)

\* the texts of <lemma> and of <case>, and the lang attributes, in the
\* documents of the model
LemmaTexts == {<<"a">>, <<"a", "1">>, <<"a", "2">>}
CaseTexts == {<<"a", "c", "c">>}
FormLangs == {"la", "greek"}

\* one child of an <analysis> element: its tag and its text
Child(tag, text) == [tag |-> tag, text |-> text]

\* the tags of the children of the element of a record
tags(a) == {a.elem[k].tag : k \in 1..Len(a.elem)}

\* self.elem.find(tag): the position of the first child with the tag, 0 for
\* None
find(a, tag) ==
    IF tag \in tags(a)
    THEN CHOOSE k \in 1..Len(a.elem) :
             a.elem[k].tag = tag /\ \A j \in 1..(k - 1) : a.elem[j].tag # tag
    ELSE 0

\* self.elem.find(tag).text
text_of(a, tag) == a.elem[find(a, tag)].text

\* Analysis(el, word) for an <analysis> with <form>, <lemma> and, unless
\* case is None, <case>
Analysis(lang, lemma, case) ==
    [lang |-> lang, sfx |-> None, word |-> from_str(<<"f">>, lang, None),
     elem |-> <<Child("form", <<"f">>), Child("lemma", lemma)>>
                  \o (IF case = None THEN <<>> ELSE <<Child("case", case[1])>>)]

\* the records ElementTree.fromstring(text).findall('analysis') can give
ParsedAnalyses ==
    {Analysis(lang, lemma, case) :
        lang \in FormLangs, lemma \in LemmaTexts,
        case \in {None} \cup {Some(c) : c \in CaseTexts}}

\* the tags of the model in ascending order
TagOrder == <<"case", "form", "lemma", "mood", "person", "pos", "tense", "voice">>

\* sorted(l) for a list of tags: the tags of l that come first in order,
\* then the rest
RECURSIVE sorted(_, _)
sorted(l, order) ==
    IF order = <<>> THEN <<>>
    ELSE SelectSeq(l, LAMBDA t : t = Head(order)) \o sorted(l, Tail(order))

\* Analysis.raw_features: sorted([t.tag for t in self.elem])
raw_features(a) == sorted([k \in 1..Len(a.elem) |-> a.elem[k].tag], TagOrder)

\* Analysis.get_feature raises ValueError: the feature is not lang,
\* lemma_sfx or one of Word.features, and no element has its name
no_feature(a, feature) ==
    /\ feature \notin {"lang", "lemma_sfx", "label", "word", "w", "c", "s"}
    /\ feature \notin tags(a)

\* Analysis.get_feature where it returns: None or Some(value); the label of
\* a Word plays no part
get_feature(a, feature) ==
    IF feature = "lang" THEN Some(a.lang)
    ELSE IF feature = "lemma_sfx" THEN a.sfx
    ELSE IF feature = "word" THEN Some(a.word.word)
    ELSE IF feature \in {"w", "c", "s"} THEN Some(<<"int", a.word[feature]>>)
    ELSE Some(text_of(a, feature))

\* Analysis.__eq__
Analysis_eq(a, b) ==
    IF get_feature(a, "lang") = get_feature(b, "lang")
    THEN LET r == raw_features(a) IN
         IF r = raw_features(b)
         THEN \A k \in 1..Len(r) : get_feature(a, r[k]) = get_feature(b, r[k])
         ELSE FALSE
    ELSE FALSE

\* Analysis.__hash__: the tuple that is hashed
Analysis_hash_with_sfx(a) ==
    [k \in 1..Len(raw_features(a)) |-> get_feature(a, raw_features(a)[k])]
        \o <<a.sfx>>

Analysis_hash(a) ==
    [k \in 1..Len(raw_features(a)) |-> get_feature(a, raw_features(a)[k])]

\* Analysis.fix_lemma
fix_lemma(a) ==
    LET ls == num_sfx(get_feature(a, "lemma")[1]) IN
    IF Len(ls[2]) = 0 THEN a
    ELSE [a EXCEPT !.elem[find(a, "lemma")].text = ls[1], !.sfx = Some(ls[2])]

\* set(l): the members in the order they were added; x is added unless a
\* member has its hash and is equal to it
RECURSIVE set_of(_)
set_of(l) ==
    IF l = <<>> THEN <<>>
    ELSE LET m == set_of(SubSeq(l, 1, Len(l) - 1))
             x == l[Len(l)]
         IN  IF \E k \in 1..Len(m) :
                    Analysis_hash(m[k]) = Analysis_hash(x) /\ Analysis_eq(m[k], x)
             THEN m ELSE Append(m, x)

\* list(a_set): the members in any order
Orders(m) ==
    {[k \in 1..Len(m) |-> m[f[k]]] :
        f \in {g \in [1..Len(m) -> 1..Len(m)] :
                  \A i, j \in 1..Len(m) : g[i] = g[j] => i = j}}

----------------------------------------------------------------------------
(* The AnalysisList as a state machine. *)

\* AnalysisList(text, word)
InitAnalysis ==
    /\ InitCalls /\ NewCache /\ InitRetry /\ NewDbCache
    /\ ws_pc = "none" /\ ws = [lang |-> "none"] /\ ws_text = <<>>
    /\ wlast = [op |-> "none"] /\ nwords = 0
    /\ al \in SeqsUpTo(ParsedAnalyses, MaxAnalyses)
    /\ alast = [op |-> "none"] /\ an = NoAnalyses

\* AnalysisList.fix('lemma')
FixLemma ==
    /\ al' = [k \in 1..Len(al) |-> fix_lemma(al[k])]
    /\ alast' = [op |-> "fix", before |-> al]
    /\ tick' = ~tick
    /\ UNCHANGED <<an, tokVars, lookupVars>>

\* AnalysisList.dedupe()
Dedupe ==
    /\ al' \in Orders(set_of(al))
    /\ alast' = [op |-> "dedupe", before |-> al]
    /\ tick' = ~tick
    /\ UNCHANGED <<an, tokVars, lookupVars>>

\* AnalysisList.deduped: self.l after the call and the l of the new
\* AnalysisList, for the order list(set(self)) came out in
deduped_in_place(l, order) == [l |-> order, result |-> order]

deduped(l, order) == [l |-> l, result |-> order]

\* AnalysisList.deduped()
Deduped ==
    /\ \E order \in Orders(set_of(al)) :
           /\ al' = deduped(al, order).l
           /\ alast' = [op |-> "deduped", before |-> al,
                        result |-> deduped(al, order).result]
    /\ tick' = ~tick
    /\ UNCHANGED <<an, tokVars, lookupVars>>

\* self[i] == self[j]
Compare(i, j) ==
    /\ alast' = [op |-> "eq", before |-> al, i |-> i, j |-> j,
                 result |-> Analysis_eq(al[i], al[j])]
    /\ tick' = ~tick
    /\ UNCHANGED <<al, an, tokVars, lookupVars>>

NextAnalysis ==
    \/ FixLemma
    \/ Dedupe
    \/ Deduped
    \/ \E i, j \in 1..Len(al) : Compare(i, j)

SpecAnalysis == InitAnalysis /\ [][NextAnalysis]_vars

----------------------------------------------------------------------------
(* Properties of the normalizer. *)

\* two records are equivalent: the same language, the same raw tags and the
\* same value under every tag
Equivalent(a, b) ==
    /\ a.lang = b.lang
    /\ tags(a) = tags(b)
    /\ \A t \in tags(a) : text_of(a, t) = text_of(b, t)

FeaturesOf(a) ==
    tags(a) \cup {"lang"}
        \cup (IF a.sfx # None THEN {"lemma_sfx"} ELSE {})

FeatureValue(a, f) ==
    IF f = "lang" THEN a.lang ELSE IF f = "lemma_sfx" THEN a.sfx[1]
    ELSE text_of(a, f)

\* C20 as stated: two records compare equal iff every feature either has,
\* the lemma suffix made by the lemma fix included, both have with the same
\* value.
C20_EqualIffSameFeatures ==
    alast.op = "eq" =>
        LET a == al[alast.i]
            b == al[alast.j]
        IN  alast.result =
                (/\ FeaturesOf(a) = FeaturesOf(b)
                 /\ \A f \in FeaturesOf(a) : FeatureValue(a, f) = FeatureValue(b, f))

\* C21: deduped returns a new list with one record for every equivalence
\* class of the original, and the original list is after the call what it
\* was before: the same records in the same order.
C21_DedupedLeavesOriginal ==
    [][(tick' # tick /\ alast'.op = "deduped") =>
        LET new == alast'.result IN
        /\ al' = al
        /\ \A i, j \in 1..Len(new) : i # j => ~Equivalent(new[i], new[j])
        /\ \A i \in 1..Len(al) :
               Cardinality({j \in 1..Len(new) : Equivalent(al[i], new[j])}) = 1
        /\ \A j \in 1..Len(new) : \E i \in 1..Len(al) : new[j] = al[i]]_vars

\* deduped returned one record for a list of two equivalent ones, which
\* still holds both
C21_Witness ==
    /\ alast.op = "deduped" /\ Len(alast.result) = 1
    /\ Len(al) = 2 /\ Equivalent(al[1], al[2]) /\ al = alast.before

----------------------------------------------------------------------------
(* The fixes and the filter of the normalizer. *)

MaxLemma == 3
MaxTerms == 2
\* largest number of children of an <analysis> element
MaxChildren == 6

\* an <analysis> with <form>, <lemma>, <pos> and, unless case is None, <case>
AnalysisOf(lang, lemma, pos, case) ==
    [lang |-> lang, sfx |-> None, word |-> from_str(<<"f">>, lang, None),
     elem |-> <<Child("form", <<"f">>), Child("lemma", lemma), Child("pos", pos)>>
                  \o (IF case = None THEN <<>> ELSE <<Child("case", case[1])>>)]

\* the dict Latin.get_prons() reads from prons.la: lemma -> person
Prons == (<<"i", "s">> :> <<"3", "r", "d">>) @@ (<<"e", "g", "o">> :> <<"1", "s", "t">>)

\* the records of the documents: Latin pronouns with a lemma of the table
\* and with one that is not in it, a Greek pronoun, nouns with a case, one
\* of them with a numbered lemma, and a verb, which has no case
FixAnalyses ==
    {AnalysisOf("la", <<"i", "s">>, <<"p", "r", "o", "n">>, None),
     AnalysisOf("la", <<"q", "u", "i">>, <<"p", "r", "o", "n">>, None),
     AnalysisOf("greek", <<"q", "u", "i">>, <<"p", "r", "o", "n">>, None),
     AnalysisOf("la", <<"a">>, <<"n", "o", "u", "n">>, Some(<<"a", "c", "c">>)),
     AnalysisOf("la", <<"a", "2">>, <<"n", "o", "u", "n">>, Some(<<"a", "c", "c">>)),
     AnalysisOf("la", <<"a">>, <<"v", "e", "r", "b">>, None)}

\* Analysis.lemma_with_sfx
lemma_with_sfx(a) ==
    LET s == get_feature(a, "lemma_sfx") IN
    get_feature(a, "lemma")[1] \o (IF s = None THEN <<>> ELSE s[1])

\* Analysis.fix_pron: the exception raised, "" for none, and the record
fix_pron(a) ==
    IF no_feature(a, "pos") THEN [raised |-> "ValueError", a |-> a]
    ELSE IF /\ get_feature(a, "pos") = Some(<<"p", "r", "o", "n">>)
            /\ get_feature(a, "lang") = Some("la")
    THEN IF get_feature(a, "lemma")[1] \notin DOMAIN Prons
         THEN [raised |-> "KeyError", a |-> a]
         ELSE [raised |-> "",
               a |-> [a EXCEPT !.elem =
                         Append(a.elem,
                                Child("person", Prons[get_feature(a, "lemma")[1]]))]]
    ELSE [raised |-> "", a |-> a]

\* Analysis.fix_part: the exception raised, "" for none, and the record
fix_part(a) ==
    IF no_feature(a, "pos") THEN [raised |-> "ValueError", a |-> a]
    ELSE IF /\ get_feature(a, "pos") = Some(<<"p", "a", "r", "t">>)
            /\ get_feature(a, "lang") = Some("la")
    THEN IF no_feature(a, "tense") THEN [raised |-> "ValueError", a |-> a]
         ELSE IF get_feature(a, "tense") = Some(<<"p", "r", "e", "s">>)
         THEN [raised |-> "",
               a |-> [a EXCEPT !.elem = Append(a.elem, Child("voice", <<"a", "c", "t">>))]]
         ELSE [raised |-> "", a |-> a]
    ELSE [raised |-> "", a |-> a]

\* the values of <mood> that fix_mood moves to <pos>
MovedMoods ==
    {<<"s", "u", "p", "i", "n", "e">>, <<"i", "n", "f">>,
     <<"g", "e", "r", "u", "n", "d", "i", "v", "e">>}

\* Analysis.set_feature: the exception raised, "" for none, and the record
set_feature(a, feature, text) ==
    IF find(a, feature) = 0 THEN [raised |-> "ValueError", a |-> a]
    ELSE [raised |-> "", a |-> [a EXCEPT !.elem[find(a, feature)].text = text]]

\* self.elem.remove(el) for the child at position i
remove(a, i) ==
    [a EXCEPT !.elem = SubSeq(a.elem, 1, i - 1) \o SubSeq(a.elem, i + 1, Len(a.elem))]

\* Analysis.fix_mood: the exception raised, "" for none, and the record
fix_mood_keeps_mood(a) ==
    LET el == find(a, "mood") IN
    IF el = 0 THEN [raised |-> "", a |-> a]
    ELSE IF a.elem[el].text \in MovedMoods
    THEN set_feature(a, "pos", a.elem[el].text)
    ELSE [raised |-> "", a |-> a]

fix_mood(a) ==
    LET el == find(a, "mood") IN
    IF el = 0 THEN [raised |-> "", a |-> a]
    ELSE IF a.elem[el].text \in MovedMoods
    THEN LET r == set_feature(a, "pos", a.elem[el].text) IN
         IF r.raised # "" THEN r
         ELSE [raised |-> "", a |-> remove(r.a, el)]
    ELSE [raised |-> "", a |-> a]

\* str.title(): a letter is put in upper case after a character that is no
\* letter and at the start, and in lower case after a letter
title(s) ==
    [k \in 1..Len(s) |->
        IF k = 1 \/ ~isalpha(s[k - 1]) THEN upper_char(s[k]) ELSE lower_char(s[k])]

\* Analysis.is_uc, for a record with a <lemma> that has a first character
is_uc(a) == category(get_feature(a, "lemma")[1][1]) = "Lu"

\* Analysis.fix_form: the exception raised, "" for none, and the record
fix_form(a) ==
    IF no_feature(a, "lemma") THEN [raised |-> "ValueError", a |-> a]
    ELSE IF get_feature(a, "lemma")[1] = <<>> THEN [raised |-> "IndexError", a |-> a]
    ELSE IF is_uc(a)
    THEN IF no_feature(a, "form") THEN [raised |-> "ValueError", a |-> a]
         ELSE set_feature(a, "form", title(get_feature(a, "form")[1]))
    ELSE [raised |-> "", a |-> a]

\* getattr(self, 'fix_' + fix)(); a name without a method raises
\* AttributeError
fix_named(a, fix) ==
    IF fix = "lemma" THEN [raised |-> "", a |-> fix_lemma(a)]
    ELSE IF fix = "part" THEN fix_part(a)
    ELSE IF fix = "pron" THEN fix_pron(a)
    ELSE IF fix = "mood" THEN fix_mood(a)
    ELSE IF fix = "form" THEN fix_form(a)
    ELSE [raised |-> "AttributeError", a |-> a]

\* Analysis.fix(*fixes): the fixes are applied in the order they are
\* named, and an exception ends the loop
RECURSIVE Analysis_fix(_, _)
Analysis_fix(a, fixes) ==
    IF fixes = <<>> THEN [raised |-> "", a |-> a]
    ELSE LET r == fix_named(a, Head(fixes)) IN
         IF r.raised # "" THEN r ELSE Analysis_fix(r.a, Tail(fixes))

\* AnalysisList.fix(*fixes): the records are fixed in place one after the
\* other, and an exception ends the loop
RECURSIVE AnalysisList_fix(_, _)
AnalysisList_fix(l, fixes) ==
    IF l = <<>> THEN [raised |-> "", l |-> <<>>]
    ELSE LET r == Analysis_fix(Head(l), fixes) IN
         IF r.raised # "" THEN [raised |-> r.raised, l |-> <<r.a>> \o Tail(l)]
         ELSE LET rest == AnalysisList_fix(Tail(l), fixes) IN
              [raised |-> rest.raised, l |-> <<r.a>> \o rest.l]

\* int(s) for a str of digits; any other str raises ValueError
RECURSIVE int(_)
int(s) ==
    IF s = <<>> THEN 0
    ELSE 10 * int(SubSeq(s, 1, Len(s) - 1))
             + (CHOOSE n \in 0..9 :
                    <<"0", "1", "2", "3", "4", "5", "6", "7", "8", "9">>[n + 1] = s[Len(s)])

\* the keyword arguments of filter, in the order they are given: feature
\* and value, no feature twice
Terms ==
    {t \in SeqsUpTo({[k |-> "pos", v |-> <<"!", "v", "e", "r", "b">>],
                     [k |-> "case", v |-> <<"a", "c", "c">>],
                     [k |-> "lemma_sfx", v |-> <<"2">>],
                     [k |-> "w", v |-> <<"#", "0">>]}, MaxTerms) :
        \A i, j \in 1..Len(t) : t[i].k = t[j].k => i = j}

\* AnalysisList.filter(**terms) on the list l: the exception raised, "" for
\* none, and the list returned
RECURSIVE filter(_, _)
filter(l, terms) ==
    IF terms = <<>> THEN [raised |-> "", result |-> l]
    ELSE
    LET k == terms[1].k
        v0 == terms[1].v
    IN
    IF v0 = <<>> THEN [raised |-> "IndexError", result |-> <<>>]
    ELSE
    LET neg == v0[1] = "!"
        v1 == IF neg THEN Tail(v0) ELSE v0
    IN
    IF v1 = <<>> THEN [raised |-> "IndexError", result |-> <<>>]
    ELSE IF v1[1] = "#" /\ (Len(v1) = 1 \/ \E i \in 2..Len(v1) : ~isdigit(v1[i]))
    THEN [raised |-> "ValueError", result |-> <<>>]
    ELSE
    LET v == IF v1[1] = "#" THEN <<"int", int(Tail(v1))>> ELSE v1 IN
    IF \E i \in 1..Len(l) : no_feature(l[i], k)
    THEN [raised |-> "ValueError", result |-> <<>>]
    ELSE filter(SelectSeq(l, LAMBDA a : (get_feature(a, k) = Some(v)) # neg),
                Tail(terms))

\* AnalysisList.retain(**terms) on the list l: the exception raised, "" for
\* none, and self.l after the call
retain_what_is_left(l, terms) ==
    [raised |-> filter(l, terms).raised, l |-> filter(l, terms).result]

retain(l, terms) ==
    LET r == filter(l, terms) IN
    IF r.raised # "" THEN [raised |-> r.raised, l |-> l]
    ELSE [raised |-> "", l |-> r.result]

\* AnalysisList(text, word) for the documents of the fixes
InitFixes ==
    /\ InitCalls /\ NewCache /\ InitRetry /\ NewDbCache
    /\ ws_pc = "none" /\ ws = [lang |-> "none"] /\ ws_text = <<>>
    /\ wlast = [op |-> "none"] /\ nwords = 0
    /\ al \in SeqsUpTo(FixAnalyses, MaxAnalyses)
           \cup {<<AnalysisOf("la", lemma, <<"n", "o", "u", "n">>, None)>> :
                    lemma \in SeqsUpTo({"a", "1", "2"}, MaxLemma) \ {<<>>}}
    /\ alast = [op |-> "none"] /\ an = NoAnalyses

\* AnalysisList.fix(*fixes), while the elements have fewer than MaxChildren
\* children
Fix(fixes) ==
    /\ \A k \in 1..Len(al) : Len(al[k].elem) < MaxChildren
    /\ LET r == AnalysisList_fix(al, fixes) IN
       /\ al' = r.l
       /\ alast' = [op |-> "fix", fix |-> fixes, before |-> al, raised |-> r.raised]
    /\ tick' = ~tick
    /\ UNCHANGED <<an, tokVars, lookupVars>>

\* AnalysisList.filter(**terms)
Filter(terms) ==
    /\ LET r == filter(al, terms) IN
       alast' = [op |-> "filter", terms |-> terms, before |-> al,
                 raised |-> r.raised, result |-> r.result]
    /\ tick' = ~tick
    /\ UNCHANGED <<al, an, tokVars, lookupVars>>

\* AnalysisList.retain(**terms)
Retain(terms) ==
    /\ LET r == retain(al, terms) IN
       /\ al' = r.l
       /\ alast' = [op |-> "retain", terms |-> terms, before |-> al,
                    raised |-> r.raised]
    /\ tick' = ~tick
    /\ UNCHANGED <<an, tokVars, lookupVars>>

NextFixes ==
    \/ \E fix \in {"lemma", "pron"} : Fix(<<fix>>)
    \/ \E terms \in Terms : Filter(terms)

SpecFixes == InitFixes /\ [][NextFixes]_vars

\* the fixes and retain, which are the calls that change the list
NextRetain ==
    \/ \E fix \in {"lemma", "pron"} : Fix(<<fix>>)
    \/ \E terms \in Terms : Retain(terms)

SpecRetain == InitFixes /\ [][NextRetain]_vars

----------------------------------------------------------------------------
(* One Analysis under the fixes. *)

\* Analysis(el, word) for an <analysis> with the children given
AnalysisFrom(lang, form, lemma, pos, more) ==
    [lang |-> lang, sfx |-> None, word |-> from_str(<<"f">>, lang, None),
     elem |-> <<Child("form", form), Child("lemma", lemma), Child("pos", pos)>>
                  \o more]

\* the records of the documents: pronouns with a numbered lemma, with a
\* lemma of the person table and with one that is not in it; participles,
\* of which Morpheus leaves the Latin present one without <voice>; verbs
\* with a mood; and a noun with a capitalized lemma
RecordAnalyses ==
    LET pron == <<"p", "r", "o", "n">>
        part == <<"p", "a", "r", "t">>
        verb == <<"v", "e", "r", "b">>
        pres == Child("tense", <<"p", "r", "e", "s">>)
    IN
    {AnalysisFrom("la", <<"f">>, <<"i", "s", "1">>, pron, <<>>),
     AnalysisFrom("la", <<"f">>, <<"i", "s">>, pron, <<>>),
     AnalysisFrom("la", <<"f">>, <<"q", "u", "i">>, pron, <<>>),
     AnalysisFrom("greek", <<"f">>, <<"i", "s", "1">>, pron, <<>>),
     AnalysisFrom("la", <<"f">>, <<"a">>, part, <<pres>>),
     AnalysisFrom("la", <<"f">>, <<"a">>, part,
                  <<Child("tense", <<"p", "e", "r", "f">>),
                    Child("voice", <<"p", "a", "s", "s">>)>>),
     AnalysisFrom("greek", <<"f">>, <<"a">>, part,
                  <<pres, Child("voice", <<"a", "c", "t">>)>>),
     AnalysisFrom("la", <<"f">>, <<"a">>, verb, <<Child("mood", <<"i", "n", "f">>)>>),
     AnalysisFrom("la", <<"f">>, <<"a">>, verb, <<Child("mood", <<"i", "n", "d">>)>>),
     AnalysisFrom("la", <<"f">>, <<"a">>, verb,
                  <<Child("mood", <<"s", "u", "p", "i", "n", "e">>)>>),
     AnalysisFrom("la", <<"f">>, <<"a">>, verb,
                  <<Child("mood", <<"g", "e", "r", "u", "n", "d", "i", "v", "e">>)>>),
     AnalysisFrom("la", <<"a", "m">>, <<"A", "m">>, <<"n", "o", "u", "n">>, <<>>)}

\* the fixes of a call, in the order they are named
FixLists ==
    {<<"lemma", "pron">>, <<"pron", "lemma">>, <<"part">>, <<"mood">>, <<"form">>,
     <<"lemma", "part", "pron", "mood", "form">>}

\* AnalysisList(text, word) for a document with one <analysis>
InitRecord ==
    /\ InitCalls /\ NewCache /\ InitRetry /\ NewDbCache
    /\ ws_pc = "none" /\ ws = [lang |-> "none"] /\ ws_text = <<>>
    /\ wlast = [op |-> "none"] /\ nwords = 0
    /\ al \in {<<a>> : a \in RecordAnalyses}
    /\ alast = [op |-> "none"] /\ an = NoAnalyses

NextRecord == \E fixes \in FixLists : Fix(fixes)

SpecRecord == InitRecord /\ [][NextRecord]_vars

----------------------------------------------------------------------------
(* Greek text: BetaCode and UniGreek.  The characters of BetaCode are      *)
(* themselves; a character of Unicode Greek is named: "alpha", "mu",       *)
(* "sigma", "fsigma" (final sigma) and their capitals "Alpha", "Mu",       *)
(* "Sigma", the combining "acute", "grave" and "circ" (perispomeni), and   *)
(* the letters Unicode has with an accent: "alpha_acute", "alpha_grave",   *)
(* "alpha_circ", "Alpha_acute" and "Alpha_grave".                          *)

MaxBeta == 3

\* unicodedata.normalize('NFD', s)
RECURSIVE NFD(_)
NFD(s) ==
    IF s = <<>> THEN <<>>
    ELSE (IF Head(s) = "alpha_acute" THEN <<"alpha", "acute">>
          ELSE IF Head(s) = "alpha_grave" THEN <<"alpha", "grave">>
          ELSE IF Head(s) = "alpha_circ" THEN <<"alpha", "circ">>
          ELSE IF Head(s) = "Alpha_acute" THEN <<"Alpha", "acute">>
          ELSE IF Head(s) = "Alpha_grave" THEN <<"Alpha", "grave">>
          ELSE <<Head(s)>>) \o NFD(Tail(s))

\* unicodedata.normalize('NFC', s): a letter takes the accent that follows
\* it when Unicode has the accented letter
RECURSIVE NFC(_)
NFC(s) ==
    LET t == NFD(s)
        composed == IF Len(t) < 2 THEN ""
                    ELSE IF t[1] = "alpha" /\ t[2] \in {"acute", "grave", "circ"}
                    THEN IF t[2] = "acute" THEN "alpha_acute"
                         ELSE IF t[2] = "grave" THEN "alpha_grave"
                         ELSE "alpha_circ"
                    ELSE IF t[1] = "Alpha" /\ t[2] \in {"acute", "grave"}
                    THEN IF t[2] = "acute" THEN "Alpha_acute" ELSE "Alpha_grave"
                    ELSE ""
    IN  IF t = <<>> THEN <<>>
        ELSE IF composed # "" THEN <<composed>> \o NFC(SubSeq(t, 3, Len(t)))
        ELSE <<t[1]>> \o NFC(Tail(t))

\* c.translate(BetaCode.get_trans()) for the characters to_unicode does not
\* treat itself
BetaCode_trans(c) ==
    IF c = "a" THEN "alpha" ELSE IF c = "A" THEN "Alpha"
    ELSE IF c = "m" THEN "mu" ELSE IF c = "M" THEN "Mu"
    ELSE IF c = "/" THEN "acute" ELSE IF c = "\\" THEN "grave"
    ELSE IF c = "=" THEN "circ" ELSE c

\* c.translate(UniGreek.get_trans())
UniGreek_trans(c) ==
    IF c = "alpha" THEN "a" ELSE IF c = "Alpha" THEN "A"
    ELSE IF c = "mu" THEN "m" ELSE IF c = "Mu" THEN "M"
    ELSE IF c \in {"sigma", "fsigma"} THEN "s" ELSE IF c = "Sigma" THEN "S"
    ELSE IF c = "beta" THEN "b" ELSE IF c = "Beta" THEN "B"
    ELSE IF c = "acute" THEN "/" ELSE IF c = "grave" THEN "\\"
    ELSE IF c = "circ" THEN "=" ELSE c

\* the loop of BetaCode.to_unicode from index i (from 1) on, with conv_uc,
\* conv_lc and conv_diac: the exception raised and what was written
RECURSIVE BetaCode_conv(_, _)
BetaCode_conv(s, i) ==
    IF i > Len(s) THEN [raised |-> "", o |-> <<>>]
    ELSE IF s[i] = "*"
    THEN LET letters == {j \in (i + 1)..Len(s) : isalpha(s[j])} IN
         IF letters = {} THEN [raised |-> "IndexError", o |-> <<>>]
         ELSE LET j == CHOOSE j \in letters : \A k \in letters : j <= k
                  bb == SubSeq(s, i + 1, j - 1)
                  rest == BetaCode_conv(s, j + 1)
              IN  [raised |-> rest.raised,
                   o |-> <<IF s[j] \in {"s", "S"} THEN "Sigma"
                           ELSE upper_char(BetaCode_trans(s[j]))>>
                         \o [k \in 1..Len(bb) |-> BetaCode_trans(bb[k])]
                         \o rest.o]
    ELSE LET rest == BetaCode_conv(s, i + 1) IN
         [raised |-> rest.raised,
          o |-> <<IF s[i] \in {"s", "S"} THEN "sigma" ELSE BetaCode_trans(s[i])>>
                \o rest.o]

\* BetaCode.to_unicode(s): the exception raised, "" for none, and the str
BetaCode_to_unicode(s) ==
    LET r == BetaCode_conv(s, 1) IN
    IF r.raised # "" THEN [raised |-> r.raised, result |-> <<>>]
    ELSE IF r.o = <<>> THEN [raised |-> "IndexError", result |-> <<>>]
    ELSE IF r.o[Len(r.o)] = "sigma"
    THEN [raised |-> "", result |-> SubSeq(r.o, 1, Len(r.o) - 1) \o <<"fsigma">>]
    ELSE [raised |-> "", result |-> r.o]

\* the loop of UniGreek.to_betacode from index i on, with conv_uc, conv_lc
\* and conv_diac; any mode but 'upper', 'lower' and 'preserve' is "other"
RECURSIVE UniGreek_conv(_, _, _)
UniGreek_conv(t, i, mode) ==
    LET cased(c) == IF mode = "upper" THEN upper_char(UniGreek_trans(c))
                    ELSE IF mode = "lower" THEN lower_char(UniGreek_trans(c))
                    ELSE UniGreek_trans(c)
    IN
    IF i > Len(t) THEN [raised |-> "", o |-> <<>>]
    ELSE IF category(t[i]) = "Lu"
    THEN LET letters == {j \in (i + 1)..Len(t) : isalpha(t[j])} IN
         IF letters = {} THEN [raised |-> "IndexError", o |-> <<>>]
         ELSE IF mode \notin {"upper", "lower", "preserve"}
         THEN [raised |-> "ValueError", o |-> <<>>]
         ELSE LET j == CHOOSE j \in letters : \A k \in letters : j <= k
                  diac == SubSeq(t, i + 1, j - 1)
                  rest == UniGreek_conv(t, j, mode)
              IN  [raised |-> rest.raised,
                   o |-> <<"*">> \o [k \in 1..Len(diac) |-> UniGreek_trans(diac[k])]
                         \o <<cased(t[i])>> \o rest.o]
    ELSE LET rest == UniGreek_conv(t, i + 1, mode) IN
         [raised |-> rest.raised,
          o |-> (IF isalpha(t[i])
                 THEN IF mode \in {"upper", "lower", "preserve"}
                      THEN <<cased(t[i])>> ELSE <<>>
                 ELSE <<UniGreek_trans(t[i])>>) \o rest.o]

\* UniGreek.to_betacode(s, mode)
UniGreek_to_betacode(s, mode) ==
    LET r == UniGreek_conv(NFD(s), 1, mode) IN
    [raised |-> r.raised, result |-> IF r.raised = "" THEN r.o ELSE <<>>]

\* BetaCode.cleanse
cleanse(s) == SelectSeq(s, isalpha)

\* the module function url_form
url_form(word, lang, greek_mode) ==
    IF lang = "la" THEN [raised |-> "", result |-> lower(word)]
    ELSE IF lang = "greek"
    THEN IF greek_mode = Some("betacode")
         THEN [raised |-> "", result |-> lower(cleanse(word))]
         ELSE IF greek_mode = Some("unicode")
         THEN LET r == UniGreek_to_betacode(word, "lower") IN
              [raised |-> r.raised, result |-> cleanse(r.result)]
         ELSE [raised |-> IF greek_mode = None THEN "TypeError" ELSE "LangError",
               result |-> <<>>]
    ELSE [raised |-> "LangError", result |-> <<>>]

\* word[:i] + word[(i + 1):] for i = word.rfind(c): without the last c, or,
\* rfind giving -1, the word without its last character and then the word
without_last(word, c) ==
    LET at == {k \in 1..Len(word) : word[k] = c} IN
    IF at = {} THEN SubSeq(word, 1, Len(word) - 1) \o word
    ELSE LET i == CHOOSE i \in at : \A k \in at : k <= i IN
         SubSeq(word, 1, i - 1) \o SubSeq(word, i + 1, Len(word))

\* BetaCode.fix_grave
BetaCode_fix_grave(word) ==
    [k \in 1..Len(word) |-> IF word[k] = "\\" THEN "/" ELSE word[k]]

\* BetaCode.fix_2nd_acute
BetaCode_fix_2nd_acute(word) ==
    LET n == Cardinality({k \in 1..Len(word) : word[k] \in {"/", "="}}) IN
    IF n > 1 THEN without_last(word, "/") ELSE word

\* UniGreek.fix_grave
UniGreek_fix_grave(word) ==
    LET w == NFD(word) IN
    NFC([k \in 1..Len(w) |-> IF w[k] = "grave" THEN "acute" ELSE w[k]])

\* UniGreek.fix_2nd_acute
UniGreek_fix_2nd_acute(word) ==
    LET w == NFD(word)
        n == Cardinality({k \in 1..Len(w) : w[k] \in {"acute", "circ"}})
    IN  IF n > 1 THEN NFC(without_last(w, "acute")) ELSE word

\* Word.dictionary_str
dictionary_str(self) ==
    IF self.lang = "la" THEN self.word
    ELSE IF self.greek_mode = Some("betacode")
    THEN BetaCode_fix_2nd_acute(BetaCode_fix_grave(self.word))
    ELSE IF self.greek_mode = Some("unicode")
    THEN UniGreek_fix_2nd_acute(UniGreek_fix_grave(self.word))
    ELSE self.word

\* Analysis.is_matched for a Word whose lang is 'la' or 'greek': the
\* exception raised, "" for none, and the bool
is_matched(a) ==
    LET u == IF a.word.lang = "greek" /\ a.word.greek_mode = Some("betacode")
             THEN BetaCode_to_unicode(a.word.word)
             ELSE [raised |-> "", result |-> a.word.word]
        f == u.result
    IN
    IF u.raised # "" THEN [raised |-> u.raised, result |-> FALSE]
    ELSE IF f = <<>> THEN [raised |-> "IndexError", result |-> FALSE]
    ELSE IF no_feature(a, "lemma") THEN [raised |-> "ValueError", result |-> FALSE]
    ELSE IF get_feature(a, "lemma")[1] = <<>>
    THEN [raised |-> "IndexError", result |-> FALSE]
    ELSE IF category(f[1]) # category(get_feature(a, "lemma")[1][1])
    THEN [raised |-> "", result |-> FALSE]
    ELSE IF no_feature(a, "form") THEN [raised |-> "ValueError", result |-> FALSE]
    ELSE [raised |-> "",
          result |-> (IF a.word.lang = "greek"
                      THEN UniGreek_fix_2nd_acute(UniGreek_fix_grave(f))
                      ELSE f) = get_feature(a, "form")[1]]

----------------------------------------------------------------------------
(* A Greek word under the conversions: ws_text is the text of the word and *)
(* ws.greek_mode its encoding; wlast is the last call, with the call       *)
(* before it in prev.                                                      *)

\* the record of a call: its outcome r and the call made before it
Called(op, mode, r) ==
    [op |-> op, arg |-> ws_text, mode |-> mode,
     raised |-> r.raised, result |-> r.result,
     prev |-> IF wlast.op = "none" THEN wlast
              ELSE [op |-> wlast.op, arg |-> wlast.arg, mode |-> wlast.mode,
                    raised |-> wlast.raised, result |-> wlast.result]]

\* Word.from_str(word, 'greek', 'betacode') for a word of BetaCode
\* characters
InitGreek ==
    /\ InitCalls /\ NewCache /\ InitRetry /\ NewDbCache
    /\ ws_pc = "none" /\ nwords = 0 /\ al = <<>> /\ alast = [op |-> "none"]
    /\ an = NoAnalyses
    /\ ws = [lang |-> "greek", greek_mode |-> Some("betacode")]
    /\ ws_text \in SeqsUpTo({"a", "s", "A", "*", "/", "=", "\\"}, MaxBeta)
    /\ wlast = [op |-> "none"]

\* BetaCode.to_unicode(word)
ToUnicode ==
    /\ ws.greek_mode = Some("betacode")
    /\ LET r == BetaCode_to_unicode(ws_text) IN
       /\ wlast' = Called("to_unicode", "", r)
       /\ IF r.raised = ""
          THEN ws_text' = r.result /\ ws' = [ws EXCEPT !.greek_mode = Some("unicode")]
          ELSE UNCHANGED <<ws_text, ws>>
    /\ tick' = ~tick
    /\ UNCHANGED <<ws_pc, nwords, anVars, lookupVars>>

\* UniGreek.to_betacode(word, mode)
ToBetacode(mode) ==
    /\ ws.greek_mode = Some("unicode")
    /\ LET r == UniGreek_to_betacode(ws_text, mode) IN
       /\ wlast' = Called("to_betacode", mode, r)
       /\ IF r.raised = ""
          THEN ws_text' = r.result /\ ws' = [ws EXCEPT !.greek_mode = Some("betacode")]
          ELSE UNCHANGED <<ws_text, ws>>
    /\ tick' = ~tick
    /\ UNCHANGED <<ws_pc, nwords, anVars, lookupVars>>

\* BetaCode.fix_2nd_acute(word) or UniGreek.fix_2nd_acute(word), for a word
\* of up to MaxBeta characters
Fix2ndAcute ==
    /\ Len(ws_text) <= MaxBeta
    /\ LET r == IF ws.greek_mode = Some("betacode")
                THEN BetaCode_fix_2nd_acute(ws_text)
                ELSE UniGreek_fix_2nd_acute(ws_text)
       IN  /\ wlast' = Called("fix_2nd_acute", "", [raised |-> "", result |-> r])
           /\ ws_text' = r
    /\ tick' = ~tick
    /\ UNCHANGED <<ws, ws_pc, nwords, anVars, lookupVars>>

\* Word.dictionary_str()
DictionaryStr ==
    /\ wlast' = Called("dictionary_str", "",
                       [raised |-> "",
                        result |-> dictionary_str(
                            from_str(ws_text, ws.lang, ws.greek_mode))])
    /\ tick' = ~tick
    /\ UNCHANGED <<ws_text, ws, ws_pc, nwords, anVars, lookupVars>>

\* Word.url_str()
UrlStr ==
    /\ wlast' = Called("url_str", "",
                       url_form(ws_text, ws.lang, ws.greek_mode))
    /\ tick' = ~tick
    /\ UNCHANGED <<ws_text, ws, ws_pc, nwords, anVars, lookupVars>>

NextGreek ==
    \/ ToUnicode
    \/ \E mode \in {"upper", "lower", "preserve", "other"} : ToBetacode(mode)
    \/ Fix2ndAcute
    \/ DictionaryStr
    \/ UrlStr

SpecGreek == InitGreek /\ [][NextGreek]_vars

----------------------------------------------------------------------------
(* The Words of the tokenizer and their analyses. *)

\* AnalysisList(text, word)[0].is_matched() for the Word next() returned
\* and a document with one <analysis>
IsMatched(form, lemma) ==
    /\ wlast.op = "next" /\ wlast.raised = ""
    /\ LET a == [lang |-> wlast.word[1].lang, sfx |-> None, word |-> wlast.word[1],
                 elem |-> <<Child("form", form), Child("lemma", lemma)>>]
       IN  /\ al' = <<a>>
           /\ alast' = [op |-> "is_matched", raised |-> is_matched(a).raised,
                        result |-> is_matched(a).result]
    /\ tick' = ~tick
    /\ UNCHANGED <<an, tokVars, lookupVars>>

NextMatch ==
    \/ NextWords
    \/ \E r \in {<<"a", "a">>, <<"a", "M">>, <<"M", "M">>, <<"alpha", "alpha">>,
                 <<"Mu", "Mu">>, <<"Beta", "Beta">>} :
           IsMatched(<<r[1]>>, <<r[2]>>)

SpecMatch == InitWords /\ [][NextMatch]_vars

----------------------------------------------------------------------------
(* Properties of the fixes and of the filter. *)

\* the record has a pronoun-fix-failure flag, and it is set
pron_fix_err(a) == "pron_fix_err" \in DOMAIN a /\ a.pron_fix_err

LatinPronoun(a) ==
    /\ "pos" \in tags(a) /\ text_of(a, "pos") = <<"p", "r", "o", "n">>
    /\ a.lang = "la"

\* C22 as stated: the pronoun fix raises nothing; a Latin pronoun record
\* whose lemma is not in the person table is left without a person feature
\* and gets its pronoun-fix-failure flag set, and the Latin pronoun records
\* of the list whose lemma is in the table all get their person.
C22_UnknownPronounFlagged ==
    [][(tick' # tick /\ alast'.op = "fix" /\ alast'.fix = <<"pron">>) =>
        /\ alast'.raised = ""
        /\ Len(al') = Len(al)
        /\ \A k \in 1..Len(al) :
               /\ (LatinPronoun(al[k]) /\ text_of(al[k], "lemma") \notin DOMAIN Prons) =>
                      "person" \notin tags(al'[k]) /\ pron_fix_err(al'[k])
               /\ (LatinPronoun(al[k]) /\ text_of(al[k], "lemma") \in DOMAIN Prons) =>
                      /\ "person" \in tags(al'[k])
                      /\ text_of(al'[k], "person") = Prons[text_of(al[k], "lemma")]]_vars

HasTrailingDigit(s) == s # <<>> /\ isdigit(s[Len(s)])

\* C23: after the lemma fix the lemma has no trailing digit and the lemma
\* followed by the lemma suffix is the lemma as it was; a record whose lemma
\* had no trailing digit is unchanged and has no lemma suffix; and the lemma
\* fix applied to a list it was just applied to changes nothing.
C23_LemmaFix ==
    [][(tick' # tick /\ alast'.op = "fix" /\ alast'.fix = <<"lemma">>) =>
        /\ alast'.raised = "" /\ Len(al') = Len(al)
        /\ \A k \in 1..Len(al) :
               /\ ~HasTrailingDigit(text_of(al'[k], "lemma"))
               /\ al[k].sfx = None =>
                      text_of(al'[k], "lemma")
                          \o (IF al'[k].sfx = None THEN <<>> ELSE al'[k].sfx[1])
                      = text_of(al[k], "lemma")
               /\ ~HasTrailingDigit(text_of(al[k], "lemma")) =>
                      al'[k] = al[k] /\ (al[k].sfx = None => al'[k].sfx = None)
        /\ (alast.op = "fix" /\ alast.fix = <<"lemma">>) => al' = al]_vars

\* the lemma fix was applied twice to a lemma ending in two digits: the
\* first split the digits off, the second found nothing to do
C23_Witness ==
    /\ alast.op = "fix" /\ alast.fix = <<"lemma">> /\ Len(al) = 1
    /\ al = alast.before
    /\ text_of(al[1], "lemma") = <<"a">> /\ al[1].sfx = Some(<<"1", "2">>)
    /\ lemma_with_sfx(al[1]) = <<"a", "1", "2">>

\* the record lacks the feature: it is no feature of its Word, and the
\* record has no such tag, attribute or lemma suffix
Lacks(a, k) == k \notin FeaturesOf(a) \cup {"word", "w", "c", "s"}

\* the record satisfies the constraint: its value for the feature is the
\* value asked for, as an integer after '#', and the reverse after '!'
Satisfies(a, c) ==
    LET neg == c.v[1] = "!"
        body == IF neg THEN Tail(c.v) ELSE c.v
        want == IF body[1] = "#" THEN <<"int", int(Tail(body))>> ELSE body
    IN  (get_feature(a, c.k) = Some(want)) # neg

\* the constraints applied left to right to the narrowed list
RECURSIVE Filtered(_, _)
Filtered(l, terms) ==
    IF terms = <<>> THEN [raised |-> "", result |-> l]
    ELSE IF \E i \in 1..Len(l) : Lacks(l[i], terms[1].k)
    THEN [raised |-> "ValueError", result |-> <<>>]
    ELSE Filtered(SelectSeq(l, LAMBDA a : Satisfies(a, terms[1])), Tail(terms))

\* C25 as stated: filter returns, in the order of the list, the records
\* that satisfy every constraint, the constraints applied left to right to
\* the narrowed list, and raises ValueError iff a record that survived the
\* earlier constraints lacks the feature of a constraint; the list itself
\* is left as it was.
C25_Filter ==
    alast.op = "filter" =>
        /\ alast.raised = Filtered(alast.before, alast.terms).raised
        /\ alast.result = Filtered(alast.before, alast.terms).result
        /\ al = alast.before

----------------------------------------------------------------------------
(* Properties of the Greek conversions and of the match. *)

\* C24 as stated: for a Word the tokenizer returned and a record of its
\* analyses, is_matched returns a bool, and it is true iff the text of the
\* word (a Greek one converted to Unicode, then fix_grave, then
\* fix_2nd_acute) is the form of the record and the first character of the
\* word and the first of the lemma have the same category.
C24_IsMatched ==
    alast.op = "is_matched" =>
        /\ alast.raised = ""
        /\ LET w == al[1].word
               u == IF w.lang = "greek" /\ w.greek_mode = Some("betacode")
                    THEN BetaCode_to_unicode(w.word).result ELSE w.word
               f == IF w.lang = "greek"
                    THEN UniGreek_fix_2nd_acute(UniGreek_fix_grave(u)) ELSE u
           IN  alast.result =
                   (/\ f = text_of(al[1], "form")
                    /\ u # <<>>
                    /\ category(u[1]) = category(text_of(al[1], "lemma")[1]))

\* C26 as stated: fix_2nd_acute applied to what fix_2nd_acute returned
\* returns it unchanged, in BetaCode and in Unicode.
C26_Idempotent ==
    [][(tick' # tick /\ wlast'.op = "fix_2nd_acute"
            /\ wlast.op = "fix_2nd_acute") => ws_text' = ws_text]_vars

\* the accent marks of a word: acute and circumflex
IsAccent(c) == c \in {"/", "=", "acute", "circ"}

\* the word with its first accent mark kept and every later one removed
RECURSIVE FirstAccentOnly(_, _)
FirstAccentOnly(w, seen) ==
    IF w = <<>> THEN <<>>
    ELSE IF IsAccent(Head(w))
    THEN (IF seen THEN <<>> ELSE <<Head(w)>>) \o FirstAccentOnly(Tail(w), TRUE)
    ELSE <<Head(w)>> \o FirstAccentOnly(Tail(w), seen)

\* C27 as stated: fix_2nd_acute returns the word with its first accent mark
\* kept, every later one removed and the other characters as they were, and
\* the dictionary form has no grave and at most one acute or circumflex.
C27_FirstAccentKept ==
    /\ wlast.op = "fix_2nd_acute" =>
           NFD(wlast.result) = FirstAccentOnly(NFD(wlast.arg), FALSE)
    /\ wlast.op = "dictionary_str" =>
           LET d == NFD(wlast.result) IN
           /\ \A k \in 1..Len(d) : d[k] \notin {"\\", "grave"}
           /\ Cardinality({k \in 1..Len(d) : IsAccent(d[k])}) <= 1

\* a BetaCode string of letters, every shift marker followed by a letter
BetaLetters(s) ==
    /\ s # <<>>
    /\ \A k \in 1..Len(s) :
           \/ s[k] \in {"a", "s", "A"}
           \/ s[k] = "*" /\ k < Len(s) /\ s[k + 1] \in {"a", "s", "A"}

\* C28 as stated: for a BetaCode string of letters s, to_betacode of
\* to_unicode(s) completes in each of the three modes, and to_unicode of
\* what it returned completes and is to_unicode(s), the case of the letters
\* apart (and the case too in mode 'preserve').
C28_RoundTrip ==
    [][(tick' # tick /\ wlast.op = "to_unicode" /\ wlast.raised = ""
            /\ BetaLetters(wlast.arg)) =>
        /\ (wlast'.op = "to_betacode" /\ wlast'.mode # "other") =>
               wlast'.raised = ""
        /\ (wlast'.op = "to_unicode" /\ wlast.prev.op = "to_betacode"
                /\ wlast.prev.mode # "other") =>
               /\ wlast'.raised = ""
               /\ lower(wlast'.result) = lower(wlast.prev.arg)
               /\ wlast.prev.mode = "preserve" => wlast'.result = wlast.prev.arg]_vars

\* C29 as stated: the key of the Unicode spelling of a word is the key of
\* its BetaCode spelling, and a key is made of lower-case BetaCode letters
\* only.
C29_SameKey ==
    [][(tick' # tick /\ wlast'.op = "url_str") =>
        /\ (wlast.op = "to_unicode" /\ wlast.raised = ""
                /\ wlast.prev.op = "url_str") =>
               wlast'.raised = "" /\ wlast'.result = wlast.prev.result
        /\ wlast'.raised = "" =>
               \A k \in 1..Len(wlast'.result) : wlast'.result[k] \in {"a", "s", "m"}]_vars

----------------------------------------------------------------------------
(* The cache under fetch(cache) and retry_all. *)

\* the step sends a request for the url k on behalf of a call that was
\* given the cache
RequestFor(k) ==
    \/ /\ tick' # tick /\ last'.op = "fetch"
       /\ last'.cache = "flat" /\ last'.url = k /\ last'.nreq > 0
    \/ /\ r_pc = "comp" /\ Len(r_new) < Len(r_urls)
       /\ r_cache = "flat" /\ r_urls[Len(r_new) + 1] = k
       /\ IF r_pc' = "comp" THEN r_nreq' > r_nreq ELSE last'.nreq > r_nreq

\* C30: once the cache maps a key to an ok response, no step of a
\* fetch(cache) or of a retry_all replaces the entry or sends a request for
\* the key; so what is fetched and overwritten is an absent entry or one
\* that holds a failure.
C30_OkEntryKept ==
    [][\A k \in Urls :
         LET e == lookup_key(CacheState, k) IN
         (e # None /\ is_ok(e[1])) =>
             /\ DictGet(pers', k) = e
             /\ ~RequestFor(k)]_vars

\* a retry_all given the cache returned after no request at all: every url
\* had an ok entry, which is still there
C30_Witness ==
    /\ last.op = "retry_all" /\ last.cache = "flat" /\ last.raised = ""
    /\ Len(last.urls) >= 1 /\ last.nreq = 0 /\ last.ok
    /\ \A i \in 1..Len(last.urls) :
           lookup_key(CacheState, last.urls[i]) = Some(last.l[1][i])

----------------------------------------------------------------------------
(* Properties of the fixes of one record. *)

\* the number of children of the record with the tag
Count(a, tag) == Cardinality({k \in 1..Len(a.elem) : a.elem[k].tag = tag})

\* a Latin pronoun whose lemma carries a numeric suffix and is, without
\* the suffix, in the person table
SuffixedKnownPronoun(a) ==
    /\ LatinPronoun(a)
    /\ HasTrailingDigit(text_of(a, "lemma"))
    /\ num_sfx(text_of(a, "lemma"))[1] \in DOMAIN Prons

\* C31 as stated: fix applies every fix it is given, in the order given, and
\* the result depends on the order: on a Latin pronoun with a numbered lemma
\* that is in the person table without its number, lemma-then-pron strips
\* the lemma and inserts the person, and pron-then-lemma looks the numbered
\* lemma up, inserts no person and then strips the lemma.
C31_FixOrder ==
    [][(/\ tick' # tick /\ alast'.op = "fix" /\ Len(al) = 1
        /\ SuffixedKnownPronoun(al[1])) =>
        LET a == al[1]
            b == al'[1]
        IN
        /\ alast'.fix = <<"lemma", "pron">> =>
               /\ alast'.raised = ""
               /\ text_of(b, "lemma") = num_sfx(text_of(a, "lemma"))[1]
               /\ Count(b, "person") = Count(a, "person") + 1
               /\ text_of(b, "person") = Prons[text_of(b, "lemma")]
        /\ alast'.fix = <<"pron", "lemma">> =>
               /\ alast'.raised = ""
               /\ Count(b, "person") = Count(a, "person")
               /\ text_of(b, "lemma") = num_sfx(text_of(a, "lemma"))[1]]_vars

\* the record without its <mood> children and with text as the text of
\* every <pos>
MoodToPos(a, text) ==
    LET kept == SelectSeq(a.elem, LAMBDA c : c.tag # "mood") IN
    [a EXCEPT !.elem = [k \in 1..Len(kept) |->
                           IF kept[k].tag = "pos" THEN Child("pos", text)
                           ELSE kept[k]]]

\* C32: the mood fix raises nothing; on a record whose mood is supine, inf
\* or gerundive it removes the mood and sets the part of speech to that
\* value, the other features staying as they are; every other record, with
\* another mood or with none, is unchanged.
C32_MoodFix ==
    [][(/\ tick' # tick /\ alast'.op = "fix" /\ alast'.fix = <<"mood">>
        /\ Len(al) = 1) =>
        LET a == al[1]
            b == al'[1]
        IN
        /\ alast'.raised = ""
        /\ IF /\ "mood" \in tags(a)
              /\ text_of(a, "mood") \in {<<"s", "u", "p", "i", "n", "e">>,
                                         <<"i", "n", "f">>,
                                         <<"g", "e", "r", "u", "n", "d", "i", "v", "e">>}
           THEN /\ "mood" \notin tags(b)
                /\ text_of(b, "pos") = text_of(a, "mood")
                /\ b = MoodToPos(a, text_of(a, "mood"))
           ELSE b = a]_vars

\* the mood fix turned an infinitive verb into a record with part of speech
\* inf and without a mood
C32_Witness ==
    /\ alast.op = "fix" /\ alast.fix = <<"mood">> /\ Len(al) = 1
    /\ "mood" \in tags(alast.before[1])
    /\ text_of(alast.before[1], "mood") = <<"i", "n", "f">>
    /\ text_of(alast.before[1], "pos") = <<"v", "e", "r", "b">>
    /\ "mood" \notin tags(al[1]) /\ text_of(al[1], "pos") = <<"i", "n", "f">>

\* the five fixes in the order of the pipeline
AllFixes == <<"lemma", "part", "pron", "mood", "form">>

\* C33 as stated: the pipeline of the five fixes applied to a record it was
\* just applied to leaves the children of the record, counted with their
\* multiplicity, and their values unchanged; after the pipeline a Latin
\* present participle has exactly one voice and a Latin pronoun exactly one
\* person.
C33_PipelineIdempotent ==
    [][(/\ tick' # tick /\ alast'.op = "fix" /\ alast'.fix = AllFixes
        /\ alast.op = "fix" /\ alast.fix = AllFixes /\ Len(al) = 1) =>
        LET b == al'[1] IN
        /\ al' = al
        /\ (/\ b.lang = "la" /\ text_of(b, "pos") = <<"p", "a", "r", "t">>
            /\ "tense" \in tags(b) /\ text_of(b, "tense") = <<"p", "r", "e", "s">>) =>
               Count(b, "voice") = 1
        /\ LatinPronoun(b) => Count(b, "person") = 1]_vars

----------------------------------------------------------------------------
(* The ordinals of the tokenizer. *)

\* C34: every Word a WordStream returns has sentence ordinal <= clause
\* ordinal <= word ordinal, the counters of the stream satisfy s <= c <= i
\* after every step, and the sentence counter advances only on a Word on
\* which the clause counter advances too.
C34_OrdinalsOrdered ==
    [][/\ ws_pc' \in {"open", "done"} => ws'.s <= ws'.c /\ ws'.c <= ws'.i
       /\ WordReturned =>
              LET w == wlast'.word[1] IN
              /\ w.s <= w.c /\ w.c <= w.w
              /\ ws'.s # ws.s => ws'.s = ws.s + 1 /\ ws'.c = ws.c + 1
       /\ ~WordReturned => (ws_pc \in {"open", "done"} => ws'.s = ws.s)]_vars

\* a Word that ends a sentence was returned: the sentence counter and the
\* clause counter both advanced
C34_Witness ==
    /\ wlast.op = "next" /\ wlast.raised = ""
    /\ wlast.word[1].word = <<"a">> /\ wlast.word[1].term = Some(".")
    /\ wlast.word[1].s = 0 /\ wlast.word[1].c = 0 /\ wlast.word[1].w = 0
    /\ ws.s = 1 /\ ws.c = 1 /\ ws.i = 1

----------------------------------------------------------------------------
(* The list under retain. *)

\* C35: when retain raises, for a constraint on a feature that a record
\* still in the running lacks or for any other reason, the list is after the
\* call what it was before, the same records in the same order; the list is
\* replaced only by a call that raised nothing, and then by records of the
\* list in their order.
C35_RetainKeepsListOnError ==
    [][(tick' # tick /\ alast'.op = "retain") =>
        /\ alast'.raised # "" => al' = al
        /\ al' # al =>
               /\ alast'.raised = ""
               /\ \E f \in [1..Len(al') -> 1..Len(al)] :
                      /\ \A i, j \in 1..Len(al') : i < j => f[i] < f[j]
                      /\ \A i \in 1..Len(al') : al'[i] = al[f[i]]]_vars

\* retain raised ValueError on its second constraint, after the first had
\* narrowed the running list, and the list still holds both its records
C35_Witness ==
    /\ alast.op = "retain" /\ alast.raised = "ValueError"
    /\ Len(alast.terms) = 2 /\ Len(al) = 2 /\ al = alast.before
    /\ filter(al, <<alast.terms[1]>>).raised = ""
    /\ Len(filter(al, <<alast.terms[1]>>).result) = 1
    /\ no_feature(filter(al, <<alast.terms[1]>>).result[1], alast.terms[2].k)

----------------------------------------------------------------------------
(* The flat Cache after a commit. *)

\* C36: when commit has returned, a new Cache opened on the file raises
\* nothing, has status 'reopened cache', holds the mapping the committing
\* Cache held at the commit, and has the last_save of the committing Cache.
C36_ReopenAfterCommit ==
    (last.op = "commit" /\ last.done) =>
        LET r == open_cache(file, now) IN
        /\ r.raised = "" /\ r.status = "reopened cache"
        /\ r.pers = pers /\ r.pers = last.new.map
        /\ last_save # None /\ r.last_save = last_save
        /\ r.file = file

\* a commit of a Cache holding a response has returned
C36_Witness ==
    /\ last.op = "commit" /\ last.done /\ pers # EmptyDict
    /\ open_cache(file, now).pers = pers
    /\ open_cache(file, now).last_save = last_save

\* no cache, uncache_word, clear or zap since the commit: the last call is
\* the commit that returned, or a commit_report that found nothing to
\* delete and nothing to add
SinceCommit ==
    \/ last.op = "commit" /\ last.done
    \/ /\ last.op = "commit_report" /\ last.raised = ""
       /\ last.will_be_deleted = <<>> /\ last.will_be_added = <<>>
       /\ RangeOf(last.will_be_replaced) = DictKeySet(pers)

\* C37 as stated: commit_report raises in no state of an open Cache, one
\* opened on a corrupt file included; and from a commit that returned until
\* the next cache, uncache_word, clear or zap it reports nothing to delete,
\* nothing to add, and every key in memory as to be replaced.
C37_ReportAfterCommit ==
    [][(cobj = "open" /\ last'.op = "commit_report" /\ cpc = "idle"
        /\ file' = file /\ pers' = pers /\ cpc' = cpc) =>
        /\ last'.raised = ""
        /\ SinceCommit =>
               /\ last'.will_be_deleted = <<>> /\ last'.will_be_added = <<>>
               /\ RangeOf(last'.will_be_replaced) = DictKeySet(pers)]_vars

----------------------------------------------------------------------------
(* The mode of UniGreek.to_betacode. *)

\* C38 as stated: to_betacode called on a non-empty string with a mode that
\* is not 'upper', 'lower' or 'preserve' raises, whether the string has an
\* upper-case letter or not, and returns no string.
C38_InvalidModeRaises ==
    (/\ wlast.op = "to_betacode"
     /\ wlast.mode \notin {"upper", "lower", "preserve"}
     /\ wlast.arg # <<>>) => wlast.raised # ""

----------------------------------------------------------------------------
(* morpheuslib: the Analyses of a response document, an iterator over the  *)
(* Analysis of each <analysis> element.  An element is [lang, elem]: the   *)
(* lang attribute of its <form> and its children; a Word is [word, lang].  *)

\* Analysis.core_features
core_features == {"form", "lemma", "expandedForm", "pos", "lang", "dialect", "feature"}

\* Analysis(elem, word): the element after fix_lemma, fix_lang,
\* fix_bad_mood, fix_pron, fix_part and fix_person, each applied to the
\* value the one before it left
morpheuslib_Analysis(el, word) ==
    LET self == [elem |-> el.elem, lang |-> el.lang, word |-> word,
                 pron_fix_err |-> FALSE]
        \* self.fix(feat, text): nothing when there is no such child
        fix(a, feat, text) ==
            IF find(a, feat) = 0 THEN a
            ELSE [a EXCEPT !.elem[find(a, feat)].text = text]
        append(a, tag, text) == [a EXCEPT !.elem = Append(a.elem, Child(tag, text))]
        lemma_fixed(a) == fix(a, "lemma", num_sfx(text_of(a, "lemma"))[1])
        lang_fixed(a) ==
            append(a, "lang",
                   IF el.lang = "la" THEN <<"l", "a", "t", "i", "n">> ELSE <<el.lang>>)
        bad_mood_fixed(a) ==
            IF find(a, "mood") # 0 /\ text_of(a, "mood") \in MovedMoods
            THEN remove(fix(a, "pos", text_of(a, "mood")), find(a, "mood"))
            ELSE a
        pron_fixed(a) ==
            IF text_of(a, "pos") = <<"p", "r", "o", "n">> /\ word.lang = "la"
            THEN IF text_of(a, "lemma") \in DOMAIN Prons
                 THEN append(a, "person", Prons[text_of(a, "lemma")])
                 ELSE [a EXCEPT !.pron_fix_err = TRUE]
            ELSE a
        part_fixed(a) ==
            IF /\ text_of(a, "pos") = <<"p", "a", "r", "t">> /\ word.lang = "la"
               /\ find(a, "tense") # 0 /\ text_of(a, "tense") = <<"p", "r", "e", "s">>
            THEN append(a, "voice", <<"a", "c", "t">>)
            ELSE a
        person_fixed(a) ==
            IF find(a, "person") = 0 THEN a
            ELSE fix(a, "person", <<text_of(a, "person")[1]>>)
    IN  CHOOSE r \in
            {person_fixed(f) : f \in
                {part_fixed(e) : e \in
                    {pron_fixed(d) : d \in
                        {bad_mood_fixed(c) : c \in
                            {lang_fixed(b) : b \in {lemma_fixed(self)}}}}}} : TRUE

\* Analysis.noncore_features
noncore_features(a) ==
    SelectSeq([k \in 1..Len(a.elem) |-> a.elem[k].tag],
              LAMBDA t : t \notin core_features)

\* Analysis.value
value(a, feature) ==
    IF find(a, feature) = 0 THEN <<feature, " not found.">>
    ELSE text_of(a, feature)

\* Analysis.__eq__ of morpheuslib
morpheuslib_eq(self, other) ==
    /\ text_of(self, "pos") = text_of(other, "pos")
    /\ text_of(self, "lemma") = text_of(other, "lemma")
    /\ \A k \in 1..Len(noncore_features(self)) :
           value(self, noncore_features(self)[k]) = value(other, noncore_features(self)[k])

\* Analysis.__hash__ of morpheuslib: the tuple that is hashed
morpheuslib_hash(a) == <<text_of(a, "lemma"), text_of(a, "pos")>>

\* the module function uncap
uncap(s) == IF Len(s) = 0 THEN s ELSE <<lower_char(s[1])>> \o Tail(s)

\* Analysis.backcheck for a Latin Word
backcheck(a) == uncap(a.word.word) = text_of(a, "form")

\* Unique.test(x) on the set with the members uq: whether x was added, and
\* the members afterwards; a member with the hash of x that finds x equal
\* to itself keeps x out
Unique_test(uq, x) ==
    IF \E k \in 1..Len(uq) :
           morpheuslib_hash(uq[k]) = morpheuslib_hash(x) /\ morpheuslib_eq(uq[k], x)
    THEN [added |-> FALSE, uq |-> uq]
    ELSE [added |-> TRUE, uq |-> Append(uq, x)]

\* Analyses.retain(a): what it returns, and self.uq afterwards
Analyses_retain(self, a) ==
    IF backcheck(a) THEN Unique_test(self.uq, a)
    ELSE [added |-> FALSE, uq |-> self.uq]

\* Analyses.__next__: the exception raised, "" for none, the Analysis
\* returned, and the instance afterwards
RECURSIVE Analyses_next(_)
Analyses_next(self) ==
    IF self.i >= Len(self.els)
    THEN [raised |-> "StopIteration", result |-> None, self |-> self]
    ELSE LET after(a, r) ==
                 IF r.added
                 THEN [raised |-> "", result |-> Some(a),
                       self |-> [self EXCEPT !.i = @ + 1, !.uq = r.uq, !.retct = @ + 1]]
                 ELSE Analyses_next([self EXCEPT !.i = @ + 1, !.uq = r.uq,
                                                 !.non_ret = Append(@, a)])
         IN  CHOOSE out \in
                 {after(ar[1], ar[2]) : ar \in
                     {<<a, Analyses_retain(self, a)>> : a \in
                         {morpheuslib_Analysis(self.els[self.i + 1], self.word)}}} : TRUE

\* the <analysis> elements of the documents, for the Latin word arma: two
\* that differ in the case, one that has the gender as well, one with
\* another form, one with a numbered lemma, and an infinitive
Elements ==
    LET arma == <<"a", "r", "m", "a">>
        noun == Child("pos", <<"n", "o", "u", "n">>)
        acc == Child("case", <<"a", "c", "c">>)
        E(children) == [lang |-> "la", elem |-> children]
    IN
    {E(<<Child("form", arma), Child("lemma", arma), noun, acc>>),
     E(<<Child("form", arma), Child("lemma", arma), noun, acc,
         Child("gender", <<"n", "e", "u", "t">>)>>),
     E(<<Child("form", arma), Child("lemma", arma), noun,
         Child("case", <<"n", "o", "m">>)>>),
     E(<<Child("form", <<"a", "r", "m", "i", "s">>), Child("lemma", arma), noun, acc>>),
     E(<<Child("form", arma), Child("lemma", <<"a", "r", "m", "a", "1">>), noun, acc>>),
     E(<<Child("form", arma), Child("lemma", arma), Child("pos", <<"v", "e", "r", "b">>),
         Child("person", <<"1", "s", "t">>), Child("mood", <<"i", "n", "f">>)>>)}

\* Analyses(text, word) for a document of up to MaxAnalyses elements and
\* the word as it stands in the text, with or without a capital
InitAnalyses ==
    /\ InitCalls /\ NewCache /\ InitRetry /\ NewDbCache
    /\ ws_pc = "none" /\ ws = [lang |-> "none"] /\ ws_text = <<>>
    /\ wlast = [op |-> "none"] /\ nwords = 0
    /\ al = <<>> /\ alast = [op |-> "none"]
    /\ \E els \in SeqsUpTo(Elements, MaxAnalyses),
          word \in {<<"a", "r", "m", "a">>, <<"A", "r", "m", "a">>} :
           an = [els |-> els, word |-> [word |-> word, lang |-> "la"],
                 i |-> 0, retct |-> 0, uq |-> <<>>, non_ret |-> <<>>]

\* next(analyses) in the loop "for a in analyses", which collects what it
\* is given
AnalysesNext ==
    /\ alast.op = "next" => alast.raised = ""
    /\ \E r \in {Analyses_next(an)} :
       /\ an' = r.self
       /\ al' = IF r.raised = "" THEN Append(al, r.result[1]) ELSE al
       /\ alast' = [op |-> "next", raised |-> r.raised, result |-> r.result]
    /\ tick' = ~tick
    /\ UNCHANGED <<tokVars, lookupVars>>

NextAnalyses == AnalysesNext

SpecAnalyses == InitAnalyses /\ [][NextAnalyses]_vars

----------------------------------------------------------------------------
(* Properties of the iteration. *)

\* the Analysis of the k-th element of the document
AnalysisAt(k) == morpheuslib_Analysis(an.els[k], an.word)

\* one of the two finds the other equal to itself
EitherEqual(a, b) == morpheuslib_eq(a, b) \/ morpheuslib_eq(b, a)

\* the analyses the iteration is to yield from the first k elements: those
\* that pass backcheck and are equal to none yielded before
RECURSIVE ToYield(_)
ToYield(k) ==
    IF k = 0 THEN <<>>
    ELSE LET before == ToYield(k - 1)
             a == AnalysisAt(k)
         IN  IF backcheck(a) /\ \A j \in 1..Len(before) : ~EitherEqual(before[j], a)
             THEN Append(before, a) ELSE before

\* C39 as stated: the iteration yields exactly the analyses that pass
\* backcheck and are equal to none yielded before; retct is the number
\* yielded and retct + len(non_ret) the number of elements consumed, which
\* at exhaustion is count(); and no two analyses yielded are equal, whichever
\* of the two is asked.
C39_AnalysesIteration ==
    alast.op = "next" =>
        /\ al = ToYield(an.i)
        /\ an.retct = Len(al)
        /\ an.retct + Len(an.non_ret) = an.i
        /\ alast.raised = "StopIteration" => an.i = Len(an.els)
        /\ \A i, j \in 1..Len(al) : i # j => ~morpheuslib_eq(al[i], al[j])

====
